---------------------------- MODULE Spec2Model ----------------------------
(***************************************************************************)
(* pathFinderC: a grid of blocked/unblocked cells (WorldMatrix), a         *)
(* fixed-capacity path container (Path), a sorted coordinate set           *)
(* (StartingPointVector) and the randomized backtracking search built on   *)
(* them, sequential and multithreaded.                                     *)
(*                                                                         *)
(* Conventions.                                                            *)
(*  - A Cords value is the pair <<row, col>>.                              *)
(*  - C arrays are functions on 0..n-1, as in the source.                  *)
(*  - exit(EXIT_FAILURE) is the variable exited becoming TRUE; an operator *)
(*    that can exit returns a record with an "exit" field.                 *)
(*  - A uint32_t counter is carried by the integer congruent to it modulo  *)
(*    2^32 that is nearest to zero (0 - 1 is carried as -1 and stands for  *)
(*    4294967295): TLC's integers are 32 bits wide.  Uint16 is the         *)
(*    conversion to uint16_t, exact on that representation.               *)
(***************************************************************************)
EXTENDS Integers, Sequences, FiniteSets, TLC

VARIABLES
    matrix,      \* the WorldMatrix, or NULL before MATRIXWORLD_matrixInitialization
    exited,      \* TRUE once the process has called exit(EXIT_FAILURE)
    vector,      \* the StartingPointVector under test, or NULL
    members,     \* history: the coordinates added and not removed since
    path,        \* the Path under test, or NULL
    ret,         \* the value returned by the last query of the Path or the grid
    pathLength,            \* DFS_findPath's argument
    isMultithreading,      \* DFS_findPath's argument
    usedStartingPoints,    \* usedStartingPoints_p: the origins already tried
    isPathFound,           \* the completion flag of DFS_findPath
    final_path,            \* foundPath_p of DFS_findPath, the workers' final_path_p
    used_points_mutex,     \* the threads holding usedStartingPointsMutex
    completion_mutex,      \* the threads holding completionCondMutex
    thread,                \* per searching thread: its position and its locals
    main,                  \* DFS_findPath's own position: [pc, thrIndex]
    result,                \* what DFS_findPath returned, or NoReturn
    replay,                \* a second sequential run fed the same draws, or NULL
    rand_next              \* the state of rand(): [next, loaded]

\* A null pointer (a record, so that it compares with the structs).
NULL == [null |-> TRUE]

\* No Path query has returned yet.
NoReturn == [op |-> "none"]

(***************************************************************************)
(* Bounds of the model.                                                    *)
(***************************************************************************)
\* The grids searched have at most MaxCells cells.
MaxCells == 6
\* The grids whose operations and containers are exercised on their own have
\* at most MaxGridCells cells.
MaxGridCells == 4
\* Coordinates handed to the containers have a column in 0..MaxCoord.
MaxCoord == 2
\* A path under test has a capacity of at most MaxPathSize, and is handed
\* coordinates with a column in 0..MaxPathCoord.
MaxPathSize == 4
MaxPathCoord == 1
\* The search is asked for a path of at most MaxPathLength coordinates.
MaxPathLength == 5
\* The parallel search runs MaxThreads of its NO_OF_THREADS workers, on grids
\* of at most MaxThreadedCells cells, for a path of at most
\* MaxThreadedPathLength coordinates.
MaxThreads == 2
MaxThreadedCells == 4
MaxThreadedPathLength == 3
\* Its grids have at most MaxThreadedBlockList cells blocked, and its draws
\* are values of rand() in 0..MaxThreadedRand.
MaxThreadedBlockList == 1
MaxThreadedRand == 3
\* The fair runs of SpecTermination search for paths of at most
\* MaxTerminationPathLength coordinates.
MaxTerminationPathLength == 2

\* A search is followed for MaxAttempts iterations of its loop over the
\* starting points (the budget read from a grid whose unblocked count
\* MATRIXWORLD_matrixBlanking drove below zero is 65535 or so).
MaxAttempts == 8
\* rand() returns a value in 0..MaxRand.
MaxRand == 5
\* A blockCells list holds at most MaxBlockList coordinates.
MaxBlockList == 2
\* MATRIXWORLD_matrixBlanking is followed while noOfUnblockedCells is no
\* further than MaxUnderflow below zero (it can decrease without end).
MaxUnderflow == 3
MaxRandState == 3
MaxGridSide == 3

(***************************************************************************)
(* utilities.h                                                             *)
(***************************************************************************)
UINT16_MAX == 65535
INT16_MAX == 32767

Uint16(x) == x % 65536

FOUR_DIRECTIONS == 4

\* directions[index], index in 0..3
directions == [index \in 0..3 |->
                 CASE index = 0 -> <<0, 1>>
                   [] index = 1 -> <<0, -1>>
                   [] index = 2 -> <<1, 0>>
                   [] index = 3 -> <<-1, 0>>]

(***************************************************************************)
(* matrixWorld.c                                                           *)
(***************************************************************************)
MINIMUM_MATRIX_SIZE == 4

\* The dimensions rows x cols of at most n cells (those of fewer than
\* MINIMUM_MATRIX_SIZE cells are refused by MATRIXWORLD_matrixInitialization).
GridDims(n) == {d \in (1..n) \X (1..n) : d[1] * d[2] <= n}

\* The coordinates handed to the containers: two rows, so that the order by
\* row and the order by column both matter.
CordsUniverse == {0, 1} \X (0..MaxCoord)

\* The coordinates handed to a path under test.
PathInputCords == {0, 1} \X (0..MaxPathCoord)

\* The coordinates handed to the grid m: every cell, one beyond the last row
\* and one beyond the last column.
InputCords(m) ==
    ((0..(m.rows - 1)) \X (0..(m.cols - 1))) \cup {<<m.rows, 0>>, <<0, m.cols>>}

\* The sequences over S of length at most n.
RECURSIVE SeqsUpTo(_, _)
SeqsUpTo(S, n) ==
    IF n = 0 THEN {<<>>}
    ELSE LET shorter == SeqsUpTo(S, n - 1) IN
         shorter \cup {Append(q, x) : q \in {t \in shorter : Len(t) = n - 1}, x \in S}

\* A matrixInitialization without the test against MINIMUM_MATRIX_SIZE.
MATRIXWORLD_matrixInitialization_anySize(rows, cols) ==
    LET noOfMatrixBoolElements == rows * cols IN
    [matrix |-> [rows |-> rows,
                 cols |-> cols,
                 worldSize |-> noOfMatrixBoolElements,
                 noOfBlockedCells |-> 0,
                 noOfUnblockedCells |-> noOfMatrixBoolElements,
                 worldMatrix |-> [i \in 0..(noOfMatrixBoolElements - 1) |-> FALSE]],
     exit |-> FALSE]

MATRIXWORLD_matrixInitialization(rows, cols) ==
    LET noOfMatrixBoolElements == rows * cols IN
    IF noOfMatrixBoolElements < MINIMUM_MATRIX_SIZE
    THEN [matrix |-> NULL, exit |-> TRUE]
    ELSE [matrix |-> [rows |-> rows,
                      cols |-> cols,
                      worldSize |-> noOfMatrixBoolElements,
                      noOfBlockedCells |-> 0,
                      noOfUnblockedCells |-> noOfMatrixBoolElements,
                      worldMatrix |-> [i \in 0..(noOfMatrixBoolElements - 1) |-> FALSE]],
          exit |-> FALSE]

\* [matrix |-> the new matrix, exit |-> the call exited].  The old matrix is
\* freed after the new one is made; resizing a null pointer exits.
MATRIXWORLD_matrixResize(m, rows, cols) ==
    IF m = NULL THEN [matrix |-> NULL, exit |-> TRUE]
    ELSE MATRIXWORLD_matrixInitialization(rows, cols)

\* A bounds check that tests the row only.
MATRIXWORLD_internal_checkSizeBoundaries_rowOnly(m, row, col) ==
    row >= m.rows

\* TRUE when the coordinates are out of bounds, i.e. when the function exits.
MATRIXWORLD_internal_checkSizeBoundaries(m, row, col) ==
    row >= m.rows \/ col >= m.cols

MATRIXWORLD_setCell(m, row, col, state) ==
    IF MATRIXWORLD_internal_checkSizeBoundaries(m, row, col)
    THEN [matrix |-> m, exit |-> TRUE]
    ELSE LET oneDimMappedIndex == (row * m.cols) + col IN
         IF m.worldMatrix[oneDimMappedIndex] # state
         THEN [matrix |->
                 [m EXCEPT !.worldMatrix[oneDimMappedIndex] = state,
                           !.noOfBlockedCells = IF state THEN @ + 1 ELSE @ - 1,
                           !.noOfUnblockedCells = IF state THEN @ - 1 ELSE @ + 1],
               exit |-> FALSE]
         ELSE [matrix |-> m, exit |-> FALSE]

\* The loop of MATRIXWORLD_matrixBlanking over coordinates_p[index..].
RECURSIVE MATRIXWORLD_internal_blankingLoop(_, _, _)
MATRIXWORLD_internal_blankingLoop(m, coordinates, index) ==
    IF index > Len(coordinates)
    THEN [matrix |-> m, exit |-> FALSE]
    ELSE LET elementToSet == coordinates[index]
             r == MATRIXWORLD_setCell(m, elementToSet[1], elementToSet[2], TRUE)
         IN  IF r.exit THEN r
             ELSE MATRIXWORLD_internal_blankingLoop(r.matrix, coordinates, index + 1)

\* A matrixBlanking that adjusts the counts and blocks no cell.
MATRIXWORLD_matrixBlanking_countsOnly(m, coordinates) ==
    [matrix |-> [m EXCEPT !.noOfBlockedCells = Len(coordinates),
                          !.noOfUnblockedCells = @ - Len(coordinates)],
     exit |-> FALSE]

\* coordinates is the sequence coordinates_p[0..noOfElementsToBlock-1].
MATRIXWORLD_matrixBlanking(m, coordinates) ==
    LET noOfElementsToBlock == Len(coordinates) IN
    IF noOfElementsToBlock > m.worldSize
    THEN [matrix |-> m, exit |-> TRUE]
    ELSE LET r == MATRIXWORLD_internal_blankingLoop(m, coordinates, 1) IN
         IF r.exit THEN r
         ELSE [matrix |->
                 [r.matrix EXCEPT !.noOfBlockedCells = noOfElementsToBlock,
                                  !.noOfUnblockedCells = @ - noOfElementsToBlock],
               exit |-> FALSE]

MATRIXWORLD_clearMatrix(m) ==
    IF m.noOfBlockedCells # 0
    THEN [m EXCEPT !.worldMatrix = [i \in 0..(m.worldSize - 1) |-> FALSE],
                   !.noOfBlockedCells = 0,
                   !.noOfUnblockedCells = m.worldSize]
    ELSE m

MATRIXWORLD_getRowSize(m) == m.rows

MATRIXWORLD_getColSize(m) == m.cols

MATRIXWORLD_getSize(m) == m.worldSize

\* An isBlocked that reports every cell unblocked.
MATRIXWORLD_isBlocked_never(m, row, col) ==
    [value |-> FALSE, exit |-> MATRIXWORLD_internal_checkSizeBoundaries(m, row, col)]

\* [value |-> the cell's state, exit |-> out of bounds]
MATRIXWORLD_isBlocked(m, row, col) ==
    IF MATRIXWORLD_internal_checkSizeBoundaries(m, row, col)
    THEN [value |-> FALSE, exit |-> TRUE]
    ELSE [value |-> m.worldMatrix[(row * m.cols) + col], exit |-> FALSE]

\* The conversion to int16_t of newRow and newCol (a value out of range
\* wraps, as the compilers in use define it).
Int16(x) ==
    LET low == x % (UINT16_MAX + 1) IN
    IF low > INT16_MAX THEN low - (UINT16_MAX + 1) ELSE low

\* [value |-> unblockedNeighbours, exit |-> out of bounds]; the loop counts
\* the direction indices whose cell passes both tests.
MATRIXWORLD_countUnblockedNeighbors(m, row, col) ==
    IF MATRIXWORLD_internal_checkSizeBoundaries(m, row, col)
    THEN [value |-> 0, exit |-> TRUE]
    ELSE [value |->
            Cardinality({index \in 0..(FOUR_DIRECTIONS - 1) :
                LET newRow == Int16(row + directions[index][1])
                    newCol == Int16(col + directions[index][2])
                IN  /\ newRow >= 0 /\ newRow < m.rows
                    /\ newCol >= 0 /\ newCol < m.cols
                    /\ ~MATRIXWORLD_isBlocked(m, newRow, newCol).value}),
          exit |-> FALSE]

\* A getter that reports no unblocked cell.
MATRIXWORLD_getNoOfUnblockedCells_zero(m) == 0

MATRIXWORLD_getNoOfUnblockedCells(m) == Uint16(m.noOfUnblockedCells)

MATRIXWORLD_getNoOfBlockedCells(m) == Uint16(m.noOfBlockedCells)

\* The cells of the grid, and those whose stored state is blocked.
Cells(m) == (0..(m.rows - 1)) \X (0..(m.cols - 1))

BlockedCells(m) == {c \in Cells(m) : m.worldMatrix[(c[1] * m.cols) + c[2]]}

(***************************************************************************)
(* startingPointVector.c                                                   *)
(*                                                                         *)
(* A vector is [currentSize, capacity, points]; points is the flexible     *)
(* array member, points[0..capacity-1].  malloc leaves it uninitialized:   *)
(* UNINIT marks a slot that was never written.  Slots at and beyond        *)
(* currentSize keep whatever memmove and STPOINT_cleanVector left there.   *)
(***************************************************************************)
UNINIT == <<"uninit", "uninit">>

STPOINT_internal_compareCords(cordA, cordB) ==
    IF cordA[1] < cordB[1] THEN -1
    ELSE IF cordA[1] > cordB[1] THEN 1
    ELSE IF cordA[2] < cordB[2] THEN -1
    ELSE IF cordA[2] > cordB[2] THEN 1
    ELSE 0

\* capacity is MATRIXWORLD_getSize(matrix_p); the caller passes a grid, whose
\* size is never 0.
STPOINT_createVector(m) ==
    LET capacity == MATRIXWORLD_getSize(m) IN
    [currentSize |-> 0,
     capacity |-> capacity,
     points |-> [i \in 0..(capacity - 1) |-> UNINIT]]

STPOINT_cleanVector(v) ==
    IF v # NULL THEN [v EXCEPT !.currentSize = 0] ELSE v

\* A search for the insertion index that always answers the end of the array.
STPOINT_internal_findInsertionIdx_append(v, point, lowerIdx, higherIdx) ==
    v.currentSize

\* The while loop of STPOINT_addPoint: -1 when the point is found (the
\* function returns), else the insertion index.  middleIdx - 1 with
\* middleIdx = 0 is stored in the int32_t higherIdx as -1.
RECURSIVE STPOINT_internal_findInsertionIdx(_, _, _, _)
STPOINT_internal_findInsertionIdx(v, point, lowerIdx, higherIdx) ==
    IF lowerIdx <= higherIdx
    THEN LET middleIdx == lowerIdx + ((higherIdx - lowerIdx) \div 2)
             cmp == STPOINT_internal_compareCords(v.points[middleIdx], point)
         IN  IF cmp = 0 THEN -1
             ELSE IF cmp > 0
                  THEN STPOINT_internal_findInsertionIdx(v, point, lowerIdx, middleIdx - 1)
                  ELSE STPOINT_internal_findInsertionIdx(v, point, middleIdx + 1, higherIdx)
    ELSE lowerIdx

\* memmove(&points[insertionIdx + 1], &points[insertionIdx], ...); points[insertionIdx] = point
STPOINT_internal_insertAt(v, insertionIdx, point) ==
    [v EXCEPT !.points = [i \in DOMAIN v.points |->
                            IF i = insertionIdx THEN point
                            ELSE IF i > insertionIdx /\ i <= v.currentSize
                                 THEN v.points[i - 1]
                                 ELSE v.points[i]],
              !.currentSize = @ + 1]

STPOINT_addPoint(v, point) ==
    IF v = NULL THEN v
    ELSE IF v.currentSize >= v.capacity THEN v
    ELSE IF v.currentSize = 0
         THEN [v EXCEPT !.points[0] = point, !.currentSize = @ + 1]
         ELSE LET insertionIdx ==
                      STPOINT_internal_findInsertionIdx(v, point, 0, v.currentSize - 1)
              IN  IF insertionIdx = -1 THEN v
                  ELSE STPOINT_internal_insertAt(v, insertionIdx, point)

\* bsearch(&point, points, currentSize, sizeof(Cords), compareCords) of the C
\* library: the index of an element equal to the key among points[l..u-1],
\* or -1 for a null result.
RECURSIVE bsearch(_, _, _, _)
bsearch(key, points, l, u) ==
    IF l < u
    THEN LET idx == (l + u) \div 2
             cmp == STPOINT_internal_compareCords(key, points[idx])
         IN  IF cmp < 0 THEN bsearch(key, points, l, idx)
             ELSE IF cmp > 0 THEN bsearch(key, points, idx + 1, u)
             ELSE idx
    ELSE -1

\* [vector |-> the vector after the call, exit |-> the call exited]
STPOINT_removePoint(v, point) ==
    IF v = NULL THEN [vector |-> v, exit |-> FALSE]
    ELSE IF v.currentSize >= v.capacity THEN [vector |-> v, exit |-> FALSE]
    ELSE IF v.currentSize = 0 THEN [vector |-> v, exit |-> TRUE]
    ELSE LET pointIndex == bsearch(point, v.points, 0, v.currentSize) IN
         IF pointIndex # -1
         THEN LET noOfElementsToMove == (v.currentSize - 1) - pointIndex IN
              [vector |->
                 [v EXCEPT !.points = [i \in DOMAIN v.points |->
                                         IF i >= pointIndex /\ i < pointIndex + noOfElementsToMove
                                         THEN v.points[i + 1]
                                         ELSE v.points[i]],
                           !.currentSize = @ - 1],
               exit |-> FALSE]
         ELSE [vector |-> v, exit |-> FALSE]

STPOINT_getSize(v) == IF v = NULL THEN 0 ELSE v.currentSize

\* A containsPoint that finds nothing.
STPOINT_containsPoint_never(v, point) == FALSE

STPOINT_containsPoint(v, point) ==
    IF v = NULL THEN FALSE
    ELSE IF v.currentSize = 0 THEN FALSE
    ELSE bsearch(point, v.points, 0, v.currentSize) # -1

(***************************************************************************)
(* path.c                                                                  *)
(*                                                                         *)
(* A path is [pathSize, currentNoOfCordsInPath, pathArray]; pathArray is   *)
(* the flexible array member, pathArray[0..pathSize-1], uninitialized      *)
(* after malloc.                                                           *)
(***************************************************************************)
\* pathSize > matrixSize * SEVENTY_FIVE_PERCENT, in double arithmetic; exact
\* as 4 * pathSize > 3 * matrixSize for the sizes of the model.
PATH_internal_exceedsSizeConstraint(pathSize, matrixSize) ==
    4 * pathSize > 3 * matrixSize

\* A PATH_initializePath that also exits for a pathSize beyond the 75%
\* constraint.
PATH_initializePath_strict(pathSize, m) ==
    IF pathSize = 0 \/ PATH_internal_exceedsSizeConstraint(pathSize, MATRIXWORLD_getSize(m))
    THEN [path |-> NULL, exit |-> TRUE]
    ELSE [path |-> [pathSize |-> pathSize,
                    currentNoOfCordsInPath |-> 0,
                    pathArray |-> [i \in 0..(pathSize - 1) |-> UNINIT]],
          exit |-> FALSE]

\* [path |-> the new path, exit |-> the call exited].  A pathSize beyond the
\* 75% constraint is reported on stderr and the path is created all the same.
PATH_initializePath(pathSize, m) ==
    IF pathSize = 0
    THEN [path |-> NULL, exit |-> TRUE]
    ELSE [path |-> [pathSize |-> pathSize,
                    currentNoOfCordsInPath |-> 0,
                    pathArray |-> [i \in 0..(pathSize - 1) |-> UNINIT]],
          exit |-> FALSE]

PATH_isEmpty(p) == p.currentNoOfCordsInPath = 0

PATH_getLength(p) == p.currentNoOfCordsInPath

\* A PATH_addCoordinates without the test against pathSize.
PATH_addCoordinates_unchecked(p, row, col) ==
    [path |-> [p EXCEPT !.pathArray =
                           [i \in DOMAIN @ |->
                               IF i = p.currentNoOfCordsInPath THEN <<row, col>> ELSE @[i]],
                        !.currentNoOfCordsInPath = @ + 1],
     exit |-> FALSE]

PATH_addCoordinates(p, row, col) ==
    IF p.currentNoOfCordsInPath < p.pathSize
    THEN [path |-> [p EXCEPT !.pathArray[p.currentNoOfCordsInPath] = <<row, col>>,
                             !.currentNoOfCordsInPath = @ + 1],
          exit |-> FALSE]
    ELSE [path |-> p, exit |-> TRUE]

\* A PATH_getLastCoordinates that answers (0, 0) for an empty path.
PATH_getLastCoordinates_zeroOnEmpty(p) ==
    IF PATH_isEmpty(p) THEN <<0, 0>>
    ELSE p.pathArray[p.currentNoOfCordsInPath - 1]

PATH_getLastCoordinates(p) ==
    IF PATH_isEmpty(p) THEN <<UINT16_MAX, UINT16_MAX>>
    ELSE p.pathArray[p.currentNoOfCordsInPath - 1]

\* [path |-> the path after the call, value |-> the coordinates returned]
PATH_popCoordinates(p) ==
    IF PATH_isEmpty(p)
    THEN [path |-> p, value |-> <<UINT16_MAX, UINT16_MAX>>]
    ELSE [path |-> [p EXCEPT !.currentNoOfCordsInPath = @ - 1,
                             !.pathArray[p.currentNoOfCordsInPath - 1] = <<0, 0>>],
          value |-> PATH_getLastCoordinates(p)]

AbsDiff(a, b) == IF a > b THEN a - b ELSE b - a

\* A PATH_isContiguous that takes a diagonal step for a step.
PATH_isContiguous_diagonal(p) ==
    IF PATH_isEmpty(p) \/ p.currentNoOfCordsInPath < 2 THEN TRUE
    ELSE \A index \in 1..(p.currentNoOfCordsInPath - 1) :
            LET currentCords == p.pathArray[index - 1]
                nextCords == p.pathArray[index]
                row_dist == AbsDiff(currentCords[1], nextCords[1])
                col_dist == AbsDiff(currentCords[2], nextCords[2])
            IN  row_dist <= 1 /\ col_dist <= 1 /\ (row_dist + col_dist) >= 1

PATH_isContiguous(p) ==
    IF PATH_isEmpty(p) \/ p.currentNoOfCordsInPath < 2 THEN TRUE
    ELSE \A index \in 1..(p.currentNoOfCordsInPath - 1) :
            LET currentCords == p.pathArray[index - 1]
                nextCords == p.pathArray[index]
                row_dist == AbsDiff(currentCords[1], nextCords[1])
                col_dist == AbsDiff(currentCords[2], nextCords[2])
            IN  (row_dist + col_dist) = 1

\* memset(pathArray, 0, sizeof(Cords) * currentNoOfCordsInPath)
PATH_clearPath(p) ==
    [p EXCEPT !.pathArray = [i \in DOMAIN p.pathArray |->
                               IF i < p.currentNoOfCordsInPath THEN <<0, 0>>
                               ELSE p.pathArray[i]],
              !.currentNoOfCordsInPath = 0]

\* The coordinates the path holds, first to last.
PathCords(p) == [i \in 1..p.currentNoOfCordsInPath |-> p.pathArray[i - 1]]

\* memcpy(dst, src, PATH_getByteSize(src)): the struct and the coordinates
\* src holds; the slots of dst beyond them keep their contents.
PATH_internal_copy(dst, src) ==
    [pathSize |-> src.pathSize,
     currentNoOfCordsInPath |-> src.currentNoOfCordsInPath,
     pathArray |-> [i \in DOMAIN dst.pathArray |->
                      IF i < src.currentNoOfCordsInPath THEN src.pathArray[i]
                      ELSE dst.pathArray[i]]]

(***************************************************************************)
(* dfsPathFinding.c                                                        *)
(***************************************************************************)
NO_OF_THREADS == 5

\* A publication branch without its test.
DFS_internal_mayPublish_always(path_is_found) == TRUE

\* The test of the publication branch: *path_is_found_p == false.
DFS_internal_mayPublish(path_is_found) == path_is_found = FALSE

\* returnValue is the value of rand() the rejection loop accepted.
UTILITY_generateRandomNumber(upperBound, returnValue) ==
    IF upperBound = 0 THEN UINT16_MAX ELSE returnValue % upperBound

\* uint16_t newRow = (tempNewRow >= 0) ? tempNewRow : UINT16_MAX
DFS_internal_toUnsigned(temp) == IF temp >= 0 THEN temp ELSE UINT16_MAX

\* newPoint of the loop body, for the direction index; tempNewRow and
\* tempNewCol are int16_t.
DFS_internal_newPoint(currentPosition, index) ==
    <<DFS_internal_toUnsigned(Int16(currentPosition[1] + directions[index][1])),
      DFS_internal_toUnsigned(Int16(currentPosition[2] + directions[index][2]))>>

\* The bounds test of the loop body: newRow against MATRIXWORLD_getColSize
\* and newCol against MATRIXWORLD_getRowSize.
DFS_internal_inBounds(m, newPoint) ==
    /\ newPoint[1] < MATRIXWORLD_getColSize(m)
    /\ newPoint[2] < MATRIXWORLD_getRowSize(m)

\* A neighbour loop that does not ask whether the neighbour is in visited.
RECURSIVE DFS_internal_neighbourLoop_revisit(_, _, _, _)
DFS_internal_neighbourLoop_revisit(m, p, visited, index) ==
    IF index >= FOUR_DIRECTIONS
    THEN [kind |-> "false", path |-> p, visited |-> visited]
    ELSE LET currentPosition == PATH_getLastCoordinates(p)
             newPoint == DFS_internal_newPoint(currentPosition, index)
         IN  IF DFS_internal_inBounds(m, newPoint)
             THEN LET blocked == MATRIXWORLD_isBlocked(m, newPoint[1], newPoint[2]) IN
                  IF blocked.exit
                  THEN [kind |-> "exit", path |-> p, visited |-> visited]
                  ELSE IF ~blocked.value
                       THEN LET added == PATH_addCoordinates(p, newPoint[1], newPoint[2]) IN
                            [kind |-> IF added.exit THEN "exit" ELSE "call",
                             path |-> added.path,
                             visited |-> STPOINT_addPoint(visited, newPoint)]
                       ELSE DFS_internal_neighbourLoop_revisit(m, p, visited, index + 1)
             ELSE DFS_internal_neighbourLoop_revisit(m, p, visited, index + 1)

\* The for loop of DFS_internal_backtracking from the direction index on, up
\* to its next recursive call or its end:
\*   kind "call"  - a neighbour was marked and appended, the recursive call
\*                  is about to start;
\*   kind "false" - the loop ended, the function returns false;
\*   kind "exit"  - a callee called exit(EXIT_FAILURE).
\* A neighbour loop that does not ask whether the neighbour is blocked.
RECURSIVE DFS_internal_neighbourLoop_throughBlocked(_, _, _, _)
DFS_internal_neighbourLoop_throughBlocked(m, p, visited, index) ==
    IF index >= FOUR_DIRECTIONS
    THEN [kind |-> "false", path |-> p, visited |-> visited]
    ELSE LET currentPosition == PATH_getLastCoordinates(p)
             newPoint == DFS_internal_newPoint(currentPosition, index)
         IN  IF DFS_internal_inBounds(m, newPoint)
             THEN LET blocked == MATRIXWORLD_isBlocked(m, newPoint[1], newPoint[2]) IN
                  IF blocked.exit
                  THEN [kind |-> "exit", path |-> p, visited |-> visited]
                  ELSE IF ~STPOINT_containsPoint(visited, newPoint)
                       THEN LET added == PATH_addCoordinates(p, newPoint[1], newPoint[2]) IN
                            [kind |-> IF added.exit THEN "exit" ELSE "call",
                             path |-> added.path,
                             visited |-> STPOINT_addPoint(visited, newPoint)]
                       ELSE DFS_internal_neighbourLoop_throughBlocked(m, p, visited,
                                                                      index + 1)
             ELSE DFS_internal_neighbourLoop_throughBlocked(m, p, visited, index + 1)

RECURSIVE DFS_internal_neighbourLoop(_, _, _, _)
DFS_internal_neighbourLoop(m, p, visited, index) ==
    IF index >= FOUR_DIRECTIONS
    THEN [kind |-> "false", path |-> p, visited |-> visited]
    ELSE LET currentPosition == PATH_getLastCoordinates(p)
             newPoint == DFS_internal_newPoint(currentPosition, index)
         IN  IF DFS_internal_inBounds(m, newPoint)
             THEN LET blocked == MATRIXWORLD_isBlocked(m, newPoint[1], newPoint[2]) IN
                  IF blocked.exit
                  THEN [kind |-> "exit", path |-> p, visited |-> visited]
                  ELSE IF ~blocked.value /\ ~STPOINT_containsPoint(visited, newPoint)
                       THEN LET added == PATH_addCoordinates(p, newPoint[1], newPoint[2]) IN
                            [kind |-> IF added.exit THEN "exit" ELSE "call",
                             path |-> added.path,
                             visited |-> STPOINT_addPoint(visited, newPoint)]
                       ELSE DFS_internal_neighbourLoop(m, p, visited, index + 1)
             ELSE DFS_internal_neighbourLoop(m, p, visited, index + 1)

\* The direction index of the loop that appended the coordinate `to` after
\* the coordinate `from`.
DFS_internal_directionOf(from, to) ==
    CHOOSE index \in 0..(FOUR_DIRECTIONS - 1) : DFS_internal_newPoint(from, index) = to

\* A call of DFS_internal_backtracking returned false.  The call made with
\* one coordinate on the path is the one DFS_findPath made.  Any other was
\* made by the loop of the call one level up, which pops the coordinate it
\* appended and goes on with its next direction.
RECURSIVE DFS_internal_returnedFalse(_, _, _)
DFS_internal_returnedFalse(m, p, visited) ==
    IF PATH_getLength(p) <= 1
    THEN [kind |-> "false", path |-> p, visited |-> visited]
    ELSE LET popped == PATH_popCoordinates(p)
             index == DFS_internal_directionOf(PATH_getLastCoordinates(popped.path),
                                               popped.value)
             r == DFS_internal_neighbourLoop(m, popped.path, visited, index + 1)
         IN  IF r.kind = "false"
             THEN DFS_internal_returnedFalse(m, r.path, r.visited)
             ELSE r

\* A DFS_internal_backtracking that does not look at *path_is_found_p.
DFS_internal_backtracking_noFlag(m, p, visited, path_is_found, length) ==
    IF PATH_getLength(p) = length
    THEN [kind |-> "true", path |-> p, visited |-> visited]
    ELSE LET r == DFS_internal_neighbourLoop(m, p, visited, 0) IN
         IF r.kind = "false"
         THEN DFS_internal_returnedFalse(m, r.path, r.visited)
         ELSE r

\* One call of DFS_internal_backtracking, from its entry up to the entry of
\* the next call (kind "call") or to the return of the outermost call to
\* DFS_findPath (kind "true" or "false"); a true propagates through every
\* caller at once.  path_is_found is the value read from *path_is_found_p,
\* FALSE when the pointer is NULL.
DFS_internal_backtracking(m, p, visited, path_is_found, length) ==
    IF PATH_getLength(p) = length
    THEN [kind |-> "true", path |-> p, visited |-> visited]
    ELSE IF path_is_found
         THEN DFS_internal_returnedFalse(m, p, visited)
         ELSE LET r == DFS_internal_neighbourLoop(m, p, visited, 0) IN
              IF r.kind = "false"
              THEN DFS_internal_returnedFalse(m, r.path, r.visited)
              ELSE r

(***************************************************************************)
(* The variables a specification does not use keep these values.           *)
(***************************************************************************)
searchVars == <<pathLength, isMultithreading, usedStartingPoints, isPathFound, final_path,
                used_points_mutex, completion_mutex, thread, main, result>>

vars == <<matrix, exited, vector, members, path, ret, searchVars, replay, rand_next>>

\* rand() before its first call: srand is never called, the sequence is that
\* of the seed 1; no thread is inside rand().
RandUnused == [next |-> 1 % MaxRandState, loaded |-> <<>>]

VectorIdle == vector = NULL /\ members = {}

PathIdle == path = NULL /\ ret = NoReturn

SearchIdle ==
    /\ pathLength = 0
    /\ isMultithreading = FALSE
    /\ usedStartingPoints = NULL
    /\ isPathFound = FALSE
    /\ final_path = NULL
    /\ used_points_mutex = {}
    /\ completion_mutex = {}
    /\ thread = <<>>
    /\ main = [pc |-> "idle"]
    /\ result = NoReturn
    /\ replay = NULL
    /\ rand_next = RandUnused

(***************************************************************************)
(* SpecGrid: a WorldMatrix under any sequence of                           *)
(* MATRIXWORLD_matrixInitialization, setCell, matrixBlanking and           *)
(* clearMatrix calls.                                                      *)
(***************************************************************************)
GridInit ==
    /\ matrix = NULL
    /\ exited = FALSE
    /\ VectorIdle
    /\ PathIdle
    /\ SearchIdle

GridInitialize(rows, cols) ==
    /\ ~exited
    /\ matrix = NULL
    /\ LET r == MATRIXWORLD_matrixInitialization(rows, cols) IN
          /\ matrix' = r.matrix
          /\ exited' = r.exit
    /\ UNCHANGED <<vector, members, path, ret>>
    /\ UNCHANGED searchVars

GridSetCell(row, col, state) ==
    /\ ~exited
    /\ matrix # NULL
    /\ LET r == MATRIXWORLD_setCell(matrix, row, col, state) IN
          /\ matrix' = IF r.exit THEN matrix ELSE r.matrix
          /\ exited' = r.exit
    /\ UNCHANGED <<vector, members, path, ret>>
    /\ UNCHANGED searchVars

GridBlanking(coordinates) ==
    /\ ~exited
    /\ matrix # NULL
    /\ matrix.noOfUnblockedCells >= 0 - MaxUnderflow
    /\ LET r == MATRIXWORLD_matrixBlanking(matrix, coordinates) IN
          /\ matrix' = IF r.exit THEN matrix ELSE r.matrix
          /\ exited' = r.exit
    /\ UNCHANGED <<vector, members, path, ret>>
    /\ UNCHANGED searchVars

GridClear ==
    /\ ~exited
    /\ matrix # NULL
    /\ matrix' = MATRIXWORLD_clearMatrix(matrix)
    /\ UNCHANGED <<exited, vector, members, path, ret>>
    /\ UNCHANGED searchVars

GridNext ==
    \/ \E d \in GridDims(MaxGridCells) : GridInitialize(d[1], d[2]) /\ UNCHANGED <<replay, rand_next>>
    \/ /\ matrix # NULL
       /\ \E c \in InputCords(matrix), state \in BOOLEAN :
             GridSetCell(c[1], c[2], state) /\ UNCHANGED <<replay, rand_next>>
    \/ /\ matrix # NULL
       /\ \E coordinates \in SeqsUpTo(InputCords(matrix), MaxBlockList) :
             GridBlanking(coordinates) /\ UNCHANGED <<replay, rand_next>>
    \/ GridClear /\ UNCHANGED <<replay, rand_next>>

SpecGrid == GridInit /\ [][GridNext]_vars

\* C4: in every state reached by setCell, blockCells and clear calls with
\* in-range coordinates, the blocked count and the unblocked count add up
\* to rows * cols.
C4_CountsSumToSize ==
    (matrix # NULL /\ ~exited) =>
        MATRIXWORLD_getNoOfBlockedCells(matrix) + MATRIXWORLD_getNoOfUnblockedCells(matrix)
            = matrix.rows * matrix.cols

\* C5: after any sequence of calls the blocked count is the number of cells
\* whose state is blocked and the unblocked count is the number of the
\* others, also when blockCells lists a cell twice or a cell already blocked.
C5_CountsMatchCells ==
    (matrix # NULL /\ ~exited) =>
        /\ MATRIXWORLD_getNoOfBlockedCells(matrix) = Cardinality(BlockedCells(matrix))
        /\ MATRIXWORLD_getNoOfUnblockedCells(matrix)
              = Cardinality(Cells(matrix) \ BlockedCells(matrix))

(***************************************************************************)
(* SpecVector: a StartingPointVector created for a grid, under any         *)
(* sequence of STPOINT_addPoint, STPOINT_removePoint and                   *)
(* STPOINT_cleanVector calls.  members follows the calls as a set of the   *)
(* vector's capacity would: an add joins the coordinate unless the set is  *)
(* full, a remove takes it out, a clean empties it.                        *)
(***************************************************************************)
VectorInit ==
    /\ \E d \in GridDims(MaxGridCells) :
          LET r == MATRIXWORLD_matrixInitialization(d[1], d[2]) IN
            /\ ~r.exit
            /\ matrix = r.matrix
            /\ vector = STPOINT_createVector(r.matrix)
    /\ members = {}
    /\ exited = FALSE
    /\ PathIdle
    /\ SearchIdle

VectorAdd(point) ==
    /\ ~exited
    /\ vector' = STPOINT_addPoint(vector, point)
    /\ members' = IF Cardinality(members) < vector.capacity
                  THEN members \cup {point}
                  ELSE members
    /\ UNCHANGED <<matrix, exited, path, ret>>
    /\ UNCHANGED searchVars

VectorRemove(point) ==
    /\ ~exited
    /\ LET r == STPOINT_removePoint(vector, point) IN
          /\ vector' = r.vector
          /\ exited' = r.exit
    /\ members' = members \ {point}
    /\ UNCHANGED <<matrix, path, ret>>
    /\ UNCHANGED searchVars

VectorClean ==
    /\ ~exited
    /\ vector' = STPOINT_cleanVector(vector)
    /\ members' = {}
    /\ UNCHANGED <<matrix, exited, path, ret>>
    /\ UNCHANGED searchVars

VectorNext ==
    \/ \E point \in CordsUniverse : VectorAdd(point) /\ UNCHANGED <<replay, rand_next>>
    \/ \E point \in CordsUniverse : VectorRemove(point) /\ UNCHANGED <<replay, rand_next>>
    \/ VectorClean /\ UNCHANGED <<replay, rand_next>>

SpecVector == VectorInit /\ [][VectorNext]_vars

\* The coordinates the vector holds, first to last.
VectorCords(v) == [i \in 1..v.currentSize |-> v.points[i - 1]]

\* (row, col) lexicographic order.
CordsBefore(a, b) == a[1] < b[1] \/ (a[1] = b[1] /\ a[2] < b[2])

\* C6: after any sequence of add, remove and clear the stored array is
\* strictly increasing in (row, col) order, hence without duplicates, and
\* the size never exceeds the capacity.
C6_SortedNoDuplicates ==
    vector # NULL =>
        /\ vector.currentSize <= vector.capacity
        /\ \A i \in 1..(vector.currentSize - 1) :
              CordsBefore(vector.points[i - 1], vector.points[i])

\* C6 is exercised: the vector was filled to its capacity and holds the
\* least and the greatest coordinate handed to it.
C6_Witness ==
    /\ vector # NULL
    /\ ~exited
    /\ vector.currentSize = vector.capacity
    /\ vector.points[0] = <<0, 0>>
    /\ vector.points[vector.capacity - 1] = <<1, MaxCoord>>

\* C7: contains(p) is true exactly when p was added and not removed since,
\* and size() is the number of such coordinates, also after the set was
\* filled to its capacity or emptied.
C7_MembershipMatchesHistory ==
    (vector # NULL /\ ~exited) =>
        /\ \A p \in CordsUniverse : STPOINT_containsPoint(vector, p) <=> p \in members
        /\ STPOINT_getSize(vector) = Cardinality(members)

\* C8: removing a coordinate that is absent, from an empty set included,
\* does not abort and leaves the array and the size unchanged.
C8_RemoveAbsentIsNoOp ==
    [][\A p \in CordsUniverse :
          (VectorRemove(p) /\ ~STPOINT_containsPoint(vector, p)) =>
              (~exited' /\ vector' = vector)]_vars

(***************************************************************************)
(* SpecPath: a Path created for a grid, under any sequence of              *)
(* PATH_addCoordinates, PATH_getLastCoordinates, PATH_popCoordinates,      *)
(* PATH_isContiguous and PATH_clearPath calls.                             *)
(***************************************************************************)
PathInit ==
    /\ \E d \in GridDims(MaxGridCells) :
          LET r == MATRIXWORLD_matrixInitialization(d[1], d[2]) IN
            /\ ~r.exit
            /\ matrix = r.matrix
    /\ exited = FALSE
    /\ VectorIdle
    /\ PathIdle
    /\ SearchIdle

PathInitialize(pathSize) ==
    /\ ~exited
    /\ path = NULL
    /\ LET r == PATH_initializePath(pathSize, matrix) IN
          /\ path' = r.path
          /\ exited' = r.exit
    /\ UNCHANGED <<matrix, vector, members, ret>>
    /\ UNCHANGED searchVars

PathAdd(row, col) ==
    /\ ~exited
    /\ path # NULL
    /\ LET r == PATH_addCoordinates(path, row, col) IN
          /\ path' = r.path
          /\ exited' = r.exit
    /\ UNCHANGED <<matrix, vector, members, ret>>
    /\ UNCHANGED searchVars

PathGetLast ==
    /\ ~exited
    /\ path # NULL
    /\ ret' = [op |-> "getLast", value |-> PATH_getLastCoordinates(path)]
    /\ UNCHANGED <<matrix, exited, vector, members, path>>
    /\ UNCHANGED searchVars

PathPop ==
    /\ ~exited
    /\ path # NULL
    /\ LET r == PATH_popCoordinates(path) IN
          /\ path' = r.path
          /\ ret' = [op |-> "pop", value |-> r.value]
    /\ UNCHANGED <<matrix, exited, vector, members>>
    /\ UNCHANGED searchVars

PathIsContiguous ==
    /\ ~exited
    /\ path # NULL
    /\ ret' = [op |-> "isContiguous", value |-> PATH_isContiguous(path)]
    /\ UNCHANGED <<matrix, exited, vector, members, path>>
    /\ UNCHANGED searchVars

PathClear ==
    /\ ~exited
    /\ path # NULL
    /\ path' = PATH_clearPath(path)
    /\ UNCHANGED <<matrix, exited, vector, members, ret>>
    /\ UNCHANGED searchVars

PathNext ==
    \/ \E pathSize \in 0..MaxPathSize : PathInitialize(pathSize) /\ UNCHANGED <<replay, rand_next>>
    \/ \E c \in PathInputCords : PathAdd(c[1], c[2]) /\ UNCHANGED <<replay, rand_next>>
    \/ PathGetLast /\ UNCHANGED <<replay, rand_next>>
    \/ PathPop /\ UNCHANGED <<replay, rand_next>>
    \/ PathIsContiguous /\ UNCHANGED <<replay, rand_next>>
    \/ PathClear /\ UNCHANGED <<replay, rand_next>>

SpecPath == PathInit /\ [][PathNext]_vars

\* C10: no usable path container exists whose capacity is 0 or more than
\* 0.75 x the number of cells of the grid: constructing one aborts.
C10_OversizedPathAborts ==
    path # NULL =>
        /\ path.pathSize > 0
        /\ ~PATH_internal_exceedsSizeConstraint(path.pathSize, MATRIXWORLD_getSize(matrix))

(***************************************************************************)
(* The grids a search is run on: built by MATRIXWORLD_matrixInitialization *)
(* and then either MATRIXWORLD_setCell on each cell of a set (as the tests *)
(* do) or MATRIXWORLD_matrixBlanking on a list of cells (as main does).    *)
(***************************************************************************)
RECURSIVE BlockedBySetCell(_, _)
BlockedBySetCell(m, S) ==
    IF S = {} THEN m
    ELSE LET c == CHOOSE x \in S : TRUE IN
         BlockedBySetCell(MATRIXWORLD_setCell(m, c[1], c[2], TRUE).matrix, S \ {c})

\* The grids of at most n cells with any set of cells blocked by setCell.
SetCellGrids(n) ==
    UNION {LET m == MATRIXWORLD_matrixInitialization(d[1], d[2]).matrix IN
             {BlockedBySetCell(m, S) : S \in SUBSET Cells(m)}
           : d \in {e \in GridDims(n) : e[1] * e[2] >= MINIMUM_MATRIX_SIZE}}

\* The grids of at most n cells with a list of at most k cells blocked by
\* MATRIXWORLD_matrixBlanking.
BlankingGrids(n, k) ==
    UNION {LET m == MATRIXWORLD_matrixInitialization(d[1], d[2]).matrix IN
             {MATRIXWORLD_matrixBlanking(m, coordinates).matrix :
                coordinates \in SeqsUpTo(Cells(m), k)}
           : d \in {e \in GridDims(n) : e[1] * e[2] >= MINIMUM_MATRIX_SIZE}}

\* The cells of the grid m in row-major order.
AllCellsList(m) == [i \in 1..m.worldSize |-> <<(i - 1) \div m.cols, (i - 1) % m.cols>>]

\* The grids of at most n cells with every cell listed once in the list
\* given to MATRIXWORLD_matrixBlanking.
FullBlankingGrids(n) ==
    {LET m == MATRIXWORLD_matrixInitialization(d[1], d[2]).matrix IN
       MATRIXWORLD_matrixBlanking(m, AllCellsList(m)).matrix
     : d \in {e \in GridDims(n) : e[1] * e[2] >= MINIMUM_MATRIX_SIZE}}

\* startingPoint outside the loop body, where it is not declared.
NoCords == <<-1, -1>>

\* The locals of DFS_internal_findPathSingleThread and of
\* DFS_findPathThreaded before their loop.
DFS_internal_locals(m, length) ==
    [pc |-> "loop",
     index |-> 0,
     noOfUnblockedElements |-> MATRIXWORLD_getNoOfUnblockedCells(m),
     noOfCols |-> MATRIXWORLD_getRowSize(m),
     noOfRows |-> MATRIXWORLD_getColSize(m),
     visitedPoints |-> STPOINT_createVector(m),
     foundPath |-> PATH_initializePath(length, m).path,
     startingPoint |-> NoCords,
     isStartingPointValid |-> FALSE]

\* The end of an iteration of the loop over the starting points.
DFS_internal_nextIteration(t) ==
    [t EXCEPT !.pc = "loop",
              !.index = @ + 1,
              !.startingPoint = NoCords,
              !.isStartingPointValid = FALSE]

(***************************************************************************)
(* SpecSequential: DFS_findPath(matrix_p, pathLength, false), i.e.         *)
(* DFS_internal_findPathSingleThread, run by the calling thread 0.         *)
(***************************************************************************)
SequentialInit ==
    /\ matrix \in SetCellGrids(MaxCells) \cup BlankingGrids(MaxCells, MaxBlockList)
                   \cup FullBlankingGrids(MaxCells)
    /\ pathLength \in 0..MaxPathLength
    /\ isMultithreading = FALSE
    /\ exited = FALSE
    /\ VectorIdle
    /\ PathIdle
    /\ usedStartingPoints = NULL
    /\ isPathFound = FALSE
    /\ final_path = NULL
    /\ used_points_mutex = {}
    /\ completion_mutex = {}
    /\ thread = <<>>
    /\ main = [pc |-> "call"]
    /\ result = NoReturn
    /\ replay = NULL
    /\ rand_next = RandUnused

\* DFS_internal_findPathSingleThread up to its loop.
SingleThreadStart ==
    /\ ~exited
    /\ ~isMultithreading
    /\ main.pc = "call"
    /\ LET created == PATH_initializePath(pathLength, matrix) IN
         IF created.exit
         THEN /\ exited' = TRUE
              /\ UNCHANGED <<usedStartingPoints, thread, main>>
         ELSE /\ usedStartingPoints' = STPOINT_createVector(matrix)
              /\ thread' = [t \in {0} |-> DFS_internal_locals(matrix, pathLength)]
              /\ main' = [pc |-> "singleThread"]
              /\ UNCHANGED exited
    /\ UNCHANGED <<matrix, vector, members, path, ret, pathLength, isMultithreading,
                   isPathFound, final_path, used_points_mutex, completion_mutex, result>>

\* An iteration that marks the drawn cell in the grid instead of trying it.
SingleThreadAttempt_marking(randRow, randCol) ==
    /\ ~exited
    /\ main.pc = "singleThread"
    /\ thread[0].pc = "loop"
    /\ thread[0].index < thread[0].noOfUnblockedElements
    /\ thread[0].index < MaxAttempts
    /\ matrix' = [matrix EXCEPT !.noOfBlockedCells = @ + 1]
    /\ thread' = [thread EXCEPT ![0] = DFS_internal_nextIteration(@)]
    /\ UNCHANGED <<exited, usedStartingPoints, vector, members, path, ret, pathLength,
                   isMultithreading, isPathFound, final_path, used_points_mutex,
                   completion_mutex, main, result>>

\* One iteration of the loop, up to the call of DFS_internal_backtracking
\* or, when the starting point is not tried, to its end.  randRow and
\* randCol are the values of rand() the two draws accepted.
SingleThreadAttempt(randRow, randCol) ==
    /\ ~exited
    /\ main.pc = "singleThread"
    /\ thread[0].pc = "loop"
    /\ thread[0].index < thread[0].noOfUnblockedElements
    /\ thread[0].index < MaxAttempts
    /\ LET t == thread[0]
           visitedPoints == STPOINT_cleanVector(t.visitedPoints)
           foundPath == PATH_clearPath(t.foundPath)
           startingPoint == <<UTILITY_generateRandomNumber(t.noOfRows, randRow),
                              UTILITY_generateRandomNumber(t.noOfCols, randCol)>>
           cleared == [t EXCEPT !.visitedPoints = visitedPoints, !.foundPath = foundPath]
       IN  IF STPOINT_containsPoint(usedStartingPoints, startingPoint)
           THEN /\ thread' = [thread EXCEPT ![0] = DFS_internal_nextIteration(cleared)]
                /\ UNCHANGED <<exited, usedStartingPoints>>
           ELSE LET blocked == MATRIXWORLD_isBlocked(matrix, startingPoint[1], startingPoint[2]) IN
                IF blocked.exit
                THEN /\ exited' = TRUE
                     /\ UNCHANGED <<thread, usedStartingPoints>>
                ELSE IF blocked.value
                THEN /\ thread' = [thread EXCEPT ![0] = DFS_internal_nextIteration(cleared)]
                     /\ UNCHANGED <<exited, usedStartingPoints>>
                ELSE LET added == PATH_addCoordinates(foundPath, startingPoint[1],
                                                      startingPoint[2]) IN
                     /\ usedStartingPoints' = STPOINT_addPoint(usedStartingPoints, startingPoint)
                     /\ exited' = added.exit
                     /\ thread' = [thread EXCEPT ![0] =
                                     [t EXCEPT !.pc = "backtracking",
                                               !.startingPoint = startingPoint,
                                               !.visitedPoints =
                                                   STPOINT_addPoint(visitedPoints, startingPoint),
                                               !.foundPath = added.path]]
    /\ UNCHANGED <<matrix, vector, members, path, ret, pathLength, isMultithreading,
                   isPathFound, final_path, used_points_mutex, completion_mutex, main, result>>

\* One call of DFS_internal_backtracking(matrix_p, foundPath_p,
\* visitedPoints_p, NULL, pathLength), and the return from the loop when the
\* outermost call returns true.
SingleThreadBacktracking ==
    /\ ~exited
    /\ main.pc = "singleThread"
    /\ thread[0].pc = "backtracking"
    /\ LET t == thread[0]
           r == DFS_internal_backtracking(matrix, t.foundPath, t.visitedPoints, FALSE,
                                          pathLength)
           after == [t EXCEPT !.foundPath = r.path, !.visitedPoints = r.visited]
       IN  CASE r.kind = "exit" ->
                  /\ exited' = TRUE
                  /\ UNCHANGED <<thread, main, result, usedStartingPoints>>
             [] r.kind = "call" ->
                  /\ thread' = [thread EXCEPT ![0] = after]
                  /\ UNCHANGED <<exited, main, result, usedStartingPoints>>
             [] r.kind = "false" ->
                  /\ thread' = [thread EXCEPT ![0] = DFS_internal_nextIteration(after)]
                  /\ UNCHANGED <<exited, main, result, usedStartingPoints>>
             [] r.kind = "true" ->
                  /\ thread' = [thread EXCEPT ![0] =
                                  [after EXCEPT !.pc = "returned", !.visitedPoints = NULL]]
                  /\ usedStartingPoints' = NULL
                  /\ result' = r.path
                  /\ main' = [pc |-> "returned"]
                  /\ UNCHANGED exited
    /\ UNCHANGED <<matrix, vector, members, path, ret, pathLength, isMultithreading,
                   isPathFound, final_path, used_points_mutex, completion_mutex>>

\* The loop ended without a path: everything is freed and NULL is returned.
SingleThreadNotFound ==
    /\ ~exited
    /\ main.pc = "singleThread"
    /\ thread[0].pc = "loop"
    /\ ~(thread[0].index < thread[0].noOfUnblockedElements)
    /\ thread' = [thread EXCEPT ![0] =
                    [@ EXCEPT !.pc = "returned", !.visitedPoints = NULL, !.foundPath = NULL]]
    /\ usedStartingPoints' = NULL
    /\ result' = NULL
    /\ main' = [pc |-> "returned"]
    /\ UNCHANGED <<matrix, exited, vector, members, path, ret, pathLength, isMultithreading,
                   isPathFound, final_path, used_points_mutex, completion_mutex>>

SequentialNext ==
    \/ SingleThreadStart /\ UNCHANGED <<replay, rand_next>>
    \/ \E randRow \in 0..MaxRand, randCol \in 0..MaxRand :
          SingleThreadAttempt(randRow, randCol) /\ UNCHANGED <<replay, rand_next>>
    \/ SingleThreadBacktracking /\ UNCHANGED <<replay, rand_next>>
    \/ SingleThreadNotFound /\ UNCHANGED <<replay, rand_next>>

SpecSequential == SequentialInit /\ [][SequentialNext]_vars

\* The path p has exactly length coordinates, each inside the grid m and
\* unblocked, consecutive ones at Manhattan distance 1, none twice.
IsValidPath(p, m, length) ==
    /\ p # NULL
    /\ p.currentNoOfCordsInPath = length
    /\ \A i \in 0..(length - 1) :
          /\ p.pathArray[i] \in Cells(m)
          /\ p.pathArray[i] \notin BlockedCells(m)
    /\ \A i \in 1..(length - 1) :
          AbsDiff(p.pathArray[i - 1][1], p.pathArray[i][1])
            + AbsDiff(p.pathArray[i - 1][2], p.pathArray[i][2]) = 1
    /\ \A i, j \in 0..(length - 1) : i # j => p.pathArray[i] # p.pathArray[j]

\* C1: whenever the sequential search returns a path, the path has exactly
\* pathLength coordinates, each inside the grid and unblocked, consecutive
\* ones at Manhattan distance 1, and no coordinate twice.
C1_SequentialPathValid ==
    (~isMultithreading /\ result # NoReturn /\ result # NULL) =>
        IsValidPath(result, matrix, pathLength)

\* C1 is exercised: the sequential search returned a path of more than two
\* coordinates that turns a corner, after an attempt that failed.
C1_Witness ==
    /\ ~isMultithreading
    /\ result # NoReturn
    /\ result # NULL
    /\ pathLength >= 3
    /\ result.pathArray[0][1] # result.pathArray[pathLength - 1][1]
    /\ result.pathArray[0][2] # result.pathArray[pathLength - 1][2]
    /\ thread[0].index > 0

\* C9: for every validated input (rows * cols >= 4, in-range blocked cells,
\* 0 < pathLength <= 0.75 x size) the search never aborts the process.
C9_SearchNeverAborts ==
    (/\ main.pc # "idle"
     /\ pathLength > 0
     /\ ~PATH_internal_exceedsSizeConstraint(pathLength, MATRIXWORLD_getSize(matrix)))
        => ~exited

(***************************************************************************)
(* SpecThreaded: DFS_findPath(matrix_p, pathLength, true).  The calling    *)
(* thread creates the workers and joins them; each worker runs             *)
(* DFS_findPathThreaded.  A step of a worker holds at most one access to   *)
(* the shared flag, set or mutexes, followed by the local computation up   *)
(* to its next one.                                                        *)
(***************************************************************************)
Threads == 0..((IF MaxThreads < NO_OF_THREADS THEN MaxThreads ELSE NO_OF_THREADS) - 1)

\* A worker that pthread_create has not started yet.
NotCreated ==
    [pc |-> "notCreated", index |-> 0, noOfUnblockedElements |-> 0, noOfCols |-> 0,
     noOfRows |-> 0, visitedPoints |-> NULL, foundPath |-> NULL,
     startingPoint |-> NoCords, isStartingPointValid |-> FALSE]

ThreadedInit ==
    /\ matrix \in BlankingGrids(MaxThreadedCells, MaxThreadedBlockList)
    /\ pathLength \in 0..MaxThreadedPathLength
    /\ isMultithreading = TRUE
    /\ exited = FALSE
    /\ VectorIdle
    /\ PathIdle
    /\ usedStartingPoints = NULL
    /\ isPathFound = FALSE
    /\ final_path = NULL
    /\ used_points_mutex = {}
    /\ completion_mutex = {}
    /\ thread = [w \in Threads |-> NotCreated]
    /\ main = [pc |-> "call"]
    /\ result = NoReturn
    /\ replay = NULL
    /\ rand_next = RandUnused

\* DFS_findPath up to its loop of pthread_create.
MainStart ==
    /\ ~exited
    /\ isMultithreading
    /\ main.pc = "call"
    /\ LET created == PATH_initializePath(pathLength, matrix) IN
         IF created.exit
         THEN /\ exited' = TRUE
              /\ UNCHANGED <<usedStartingPoints, final_path, main>>
         ELSE /\ usedStartingPoints' = STPOINT_createVector(matrix)
              /\ final_path' = created.path
              /\ main' = [pc |-> "create", thrIndex |-> 0]
              /\ UNCHANGED exited
    /\ UNCHANGED <<matrix, vector, members, path, ret, pathLength, isMultithreading,
                   isPathFound, used_points_mutex, completion_mutex, thread, result>>

\* pthread_create(&arrThread[thrIndex], NULL, DFS_findPathThreaded, ...)
MainCreate ==
    /\ ~exited
    /\ main.pc = "create"
    /\ thread' = [thread EXCEPT ![main.thrIndex].pc = "start"]
    /\ main' = IF main.thrIndex + 1 \in Threads
               THEN [main EXCEPT !.thrIndex = @ + 1]
               ELSE [pc |-> "join"]
    /\ UNCHANGED <<matrix, exited, vector, members, path, ret, pathLength, isMultithreading,
                   usedStartingPoints, isPathFound, final_path, used_points_mutex,
                   completion_mutex, result>>

\* DFS_findPathThreaded up to its loop.
ThreadStart(w) ==
    /\ ~exited
    /\ thread[w].pc = "start"
    /\ LET created == PATH_initializePath(pathLength, matrix) IN
         IF created.exit
         THEN exited' = TRUE /\ UNCHANGED thread
         ELSE /\ thread' = [thread EXCEPT ![w] = DFS_internal_locals(matrix, pathLength)]
              /\ UNCHANGED exited
    /\ UNCHANGED <<matrix, vector, members, path, ret, pathLength, isMultithreading,
                   usedStartingPoints, isPathFound, final_path, used_points_mutex,
                   completion_mutex, main, result>>

\* The head of an iteration: the vectors are cleared and the starting point
\* is drawn; the worker then waits for usedStartingPointsMutex.
ThreadDraw(w, randRow, randCol) ==
    /\ ~exited
    /\ thread[w].pc = "loop"
    /\ thread[w].index < thread[w].noOfUnblockedElements
    /\ thread[w].index < MaxAttempts
    /\ thread' = [thread EXCEPT ![w] =
                    [@ EXCEPT !.pc = "lockUsedPoints",
                              !.visitedPoints = STPOINT_cleanVector(@),
                              !.foundPath = PATH_clearPath(@),
                              !.startingPoint =
                                  <<UTILITY_generateRandomNumber(thread[w].noOfRows, randRow),
                                    UTILITY_generateRandomNumber(thread[w].noOfCols, randCol)>>,
                              !.isStartingPointValid = FALSE]]
    /\ UNCHANGED <<matrix, exited, vector, members, path, ret, pathLength, isMultithreading,
                   usedStartingPoints, isPathFound, final_path, used_points_mutex,
                   completion_mutex, main, result>>

\* A lock of usedStartingPointsMutex that does not wait for its holder.
ThreadLockUsedPoints_noWait(w) ==
    /\ ~exited
    /\ thread[w].pc = "lockUsedPoints"
    /\ used_points_mutex' = used_points_mutex \cup {w}
    /\ thread' = [thread EXCEPT ![w].pc = "usedPoints"]
    /\ UNCHANGED <<matrix, exited, vector, members, path, ret, pathLength, isMultithreading,
                   usedStartingPoints, isPathFound, final_path, completion_mutex, main, result>>

\* pthread_mutex_lock(used_points_mutex_p)
ThreadLockUsedPoints(w) ==
    /\ ~exited
    /\ thread[w].pc = "lockUsedPoints"
    /\ used_points_mutex = {}
    /\ used_points_mutex' = {w}
    /\ thread' = [thread EXCEPT ![w].pc = "usedPoints"]
    /\ UNCHANGED <<matrix, exited, vector, members, path, ret, pathLength, isMultithreading,
                   usedStartingPoints, isPathFound, final_path, completion_mutex, main, result>>

\* A section under usedStartingPointsMutex that ends without the unlock.
ThreadUsedPoints_noUnlock(w) ==
    /\ ~exited
    /\ thread[w].pc = "usedPoints"
    /\ thread' = [thread EXCEPT ![w] =
                    [@ EXCEPT !.pc = "tryStartingPoint", !.isStartingPointValid = TRUE]]
    /\ UNCHANGED <<matrix, exited, vector, members, path, ret, pathLength, isMultithreading,
                   usedStartingPoints, isPathFound, final_path, used_points_mutex,
                   completion_mutex, main, result>>

\* The section under usedStartingPointsMutex, and pthread_mutex_unlock.
ThreadUsedPoints(w) ==
    /\ ~exited
    /\ thread[w].pc = "usedPoints"
    /\ LET isStartingPointValid ==
               ~STPOINT_containsPoint(usedStartingPoints, thread[w].startingPoint)
       IN  /\ usedStartingPoints' =
                 IF isStartingPointValid
                 THEN STPOINT_addPoint(usedStartingPoints, thread[w].startingPoint)
                 ELSE usedStartingPoints
           /\ thread' = [thread EXCEPT ![w] =
                           [@ EXCEPT !.pc = "tryStartingPoint",
                                     !.isStartingPointValid = isStartingPointValid]]
    /\ used_points_mutex' = used_points_mutex \ {w}
    /\ UNCHANGED <<matrix, exited, vector, members, path, ret, pathLength, isMultithreading,
                   isPathFound, final_path, completion_mutex, main, result>>

\* The worker leaves its loop: its path and its visited vector are freed.
DFS_internal_finished(t) ==
    [t EXCEPT !.pc = "finished",
              !.visitedPoints = NULL,
              !.foundPath = NULL,
              !.startingPoint = NoCords,
              !.isStartingPointValid = FALSE]

\* The test of the starting point, the read of *path_is_found_p and what
\* precedes the call of DFS_internal_backtracking.
\* A worker that starts its attempt without the test of the flag.
ThreadTryStartingPoint_noBreak(w) ==
    /\ ~exited
    /\ thread[w].pc = "tryStartingPoint"
    /\ LET t == thread[w] IN
         IF ~t.isStartingPointValid
         THEN /\ thread' = [thread EXCEPT ![w] = DFS_internal_nextIteration(t)]
              /\ UNCHANGED exited
         ELSE LET blocked == MATRIXWORLD_isBlocked(matrix, t.startingPoint[1],
                                                   t.startingPoint[2]) IN
              IF blocked.exit
              THEN exited' = TRUE /\ UNCHANGED thread
              ELSE IF blocked.value
              THEN /\ thread' = [thread EXCEPT ![w] = DFS_internal_nextIteration(t)]
                   /\ UNCHANGED exited
              ELSE LET added == PATH_addCoordinates(t.foundPath, t.startingPoint[1],
                                                    t.startingPoint[2]) IN
                   /\ exited' = added.exit
                   /\ thread' = [thread EXCEPT ![w] =
                                   [t EXCEPT !.pc = "backtracking",
                                             !.visitedPoints =
                                                 STPOINT_addPoint(@, t.startingPoint),
                                             !.foundPath = added.path]]
    /\ UNCHANGED <<matrix, vector, members, path, ret, pathLength, isMultithreading,
                   usedStartingPoints, isPathFound, final_path, used_points_mutex,
                   completion_mutex, main, result>>

ThreadTryStartingPoint(w) ==
    /\ ~exited
    /\ thread[w].pc = "tryStartingPoint"
    /\ LET t == thread[w] IN
         IF ~t.isStartingPointValid
         THEN /\ thread' = [thread EXCEPT ![w] = DFS_internal_nextIteration(t)]
              /\ UNCHANGED exited
         ELSE LET blocked == MATRIXWORLD_isBlocked(matrix, t.startingPoint[1],
                                                   t.startingPoint[2]) IN
              IF blocked.exit
              THEN exited' = TRUE /\ UNCHANGED thread
              ELSE IF blocked.value
              THEN /\ thread' = [thread EXCEPT ![w] = DFS_internal_nextIteration(t)]
                   /\ UNCHANGED exited
              ELSE IF isPathFound
              THEN /\ thread' = [thread EXCEPT ![w] = DFS_internal_finished(t)]
                   /\ UNCHANGED exited
              ELSE LET added == PATH_addCoordinates(t.foundPath, t.startingPoint[1],
                                                    t.startingPoint[2]) IN
                   /\ exited' = added.exit
                   /\ thread' = [thread EXCEPT ![w] =
                                   [t EXCEPT !.pc = "backtracking",
                                             !.visitedPoints =
                                                 STPOINT_addPoint(@, t.startingPoint),
                                             !.foundPath = added.path]]
    /\ UNCHANGED <<matrix, vector, members, path, ret, pathLength, isMultithreading,
                   usedStartingPoints, isPathFound, final_path, used_points_mutex,
                   completion_mutex, main, result>>

\* One call of DFS_internal_backtracking(matrix_p, foundPath_p,
\* visitedPoints_p, path_is_found_p, desiredPathLength).
ThreadBacktracking(w) ==
    /\ ~exited
    /\ thread[w].pc = "backtracking"
    /\ LET t == thread[w]
           r == DFS_internal_backtracking(matrix, t.foundPath, t.visitedPoints, isPathFound,
                                          pathLength)
           after == [t EXCEPT !.foundPath = r.path, !.visitedPoints = r.visited]
       IN  CASE r.kind = "exit" -> exited' = TRUE /\ UNCHANGED thread
             [] r.kind = "call" ->
                  thread' = [thread EXCEPT ![w] = after] /\ UNCHANGED exited
             [] r.kind = "false" ->
                  /\ thread' = [thread EXCEPT ![w] = [after EXCEPT !.pc = "readFlag"]]
                  /\ UNCHANGED exited
             [] r.kind = "true" ->
                  /\ thread' = [thread EXCEPT ![w] = [after EXCEPT !.pc = "lockCompletion"]]
                  /\ UNCHANGED exited
    /\ UNCHANGED <<matrix, vector, members, path, ret, pathLength, isMultithreading,
                   usedStartingPoints, isPathFound, final_path, used_points_mutex,
                   completion_mutex, main, result>>

\* DFS_internal_backtracking returned false: ... || *path_is_found_p
ThreadReadFlag(w) ==
    /\ ~exited
    /\ thread[w].pc = "readFlag"
    /\ thread' = [thread EXCEPT ![w] =
                    IF isPathFound
                    THEN [@ EXCEPT !.pc = "lockCompletion"]
                    ELSE DFS_internal_nextIteration(@)]
    /\ UNCHANGED <<matrix, exited, vector, members, path, ret, pathLength, isMultithreading,
                   usedStartingPoints, isPathFound, final_path, used_points_mutex,
                   completion_mutex, main, result>>

\* A pthread_mutex_lock(completion_mutex_p) that does not wait for the
\* holder.
ThreadLockCompletion_noWait(w) ==
    /\ ~exited
    /\ thread[w].pc = "lockCompletion"
    /\ completion_mutex' = completion_mutex \cup {w}
    /\ thread' = [thread EXCEPT ![w].pc = "publish"]
    /\ UNCHANGED <<matrix, exited, vector, members, path, ret, pathLength, isMultithreading,
                   usedStartingPoints, isPathFound, final_path, used_points_mutex, main,
                   result>>

\* pthread_mutex_lock(completion_mutex_p)
ThreadLockCompletion(w) ==
    /\ ~exited
    /\ thread[w].pc = "lockCompletion"
    /\ completion_mutex = {}
    /\ completion_mutex' = {w}
    /\ thread' = [thread EXCEPT ![w].pc = "publish"]
    /\ UNCHANGED <<matrix, exited, vector, members, path, ret, pathLength, isMultithreading,
                   usedStartingPoints, isPathFound, final_path, used_points_mutex, main,
                   result>>

\* The section under completionCondMutex, pthread_mutex_unlock, and
\* STPOINT_destroyVector(&visitedPoints_p); the loop goes on.
ThreadPublish(w) ==
    /\ ~exited
    /\ thread[w].pc = "publish"
    /\ IF DFS_internal_mayPublish(isPathFound)
       THEN /\ isPathFound' = TRUE
            /\ final_path' = PATH_internal_copy(final_path, thread[w].foundPath)
       ELSE UNCHANGED <<isPathFound, final_path>>
    /\ completion_mutex' = completion_mutex \ {w}
    /\ thread' = [thread EXCEPT ![w] =
                    DFS_internal_nextIteration([@ EXCEPT !.visitedPoints = NULL])]
    /\ UNCHANGED <<matrix, exited, vector, members, path, ret, pathLength, isMultithreading,
                   usedStartingPoints, used_points_mutex, main, result>>

\* The loop ended with index = noOfUnblockedElements.
ThreadExhausted(w) ==
    /\ ~exited
    /\ thread[w].pc = "loop"
    /\ ~(thread[w].index < thread[w].noOfUnblockedElements)
    /\ thread' = [thread EXCEPT ![w] = DFS_internal_finished(@)]
    /\ UNCHANGED <<matrix, exited, vector, members, path, ret, pathLength, isMultithreading,
                   usedStartingPoints, isPathFound, final_path, used_points_mutex,
                   completion_mutex, main, result>>

\* A return that does not join the workers.
MainJoin_noJoin ==
    /\ ~exited
    /\ main.pc = "join"
    /\ usedStartingPoints' = NULL
    /\ result' = IF isPathFound THEN final_path ELSE NULL
    /\ main' = [pc |-> "returned"]
    /\ UNCHANGED <<matrix, exited, vector, members, path, ret, pathLength, isMultithreading,
                   isPathFound, final_path, used_points_mutex, completion_mutex, thread>>

\* The pthread_join loop has joined every worker: the mutexes and the set
\* are destroyed and the result is returned.
MainJoin ==
    /\ ~exited
    /\ main.pc = "join"
    /\ \A w \in Threads : thread[w].pc = "finished"
    /\ usedStartingPoints' = NULL
    /\ result' = IF isPathFound THEN final_path ELSE NULL
    /\ main' = [pc |-> "returned"]
    /\ UNCHANGED <<matrix, exited, vector, members, path, ret, pathLength, isMultithreading,
                   isPathFound, final_path, used_points_mutex, completion_mutex, thread>>

ThreadedNext ==
    \/ MainStart /\ UNCHANGED <<replay, rand_next>>
    \/ MainCreate /\ UNCHANGED <<replay, rand_next>>
    \/ MainJoin /\ UNCHANGED <<replay, rand_next>>
    \/ \E w \in Threads :
          \/ ThreadStart(w) /\ UNCHANGED <<replay, rand_next>>
          \/ \E randRow \in 0..MaxThreadedRand, randCol \in 0..MaxThreadedRand :
                ThreadDraw(w, randRow, randCol) /\ UNCHANGED <<replay, rand_next>>
          \/ ThreadLockUsedPoints(w) /\ UNCHANGED <<replay, rand_next>>
          \/ ThreadUsedPoints(w) /\ UNCHANGED <<replay, rand_next>>
          \/ ThreadTryStartingPoint(w) /\ UNCHANGED <<replay, rand_next>>
          \/ ThreadBacktracking(w) /\ UNCHANGED <<replay, rand_next>>
          \/ ThreadReadFlag(w) /\ UNCHANGED <<replay, rand_next>>
          \/ ThreadLockCompletion(w) /\ UNCHANGED <<replay, rand_next>>
          \/ ThreadPublish(w) /\ UNCHANGED <<replay, rand_next>>
          \/ ThreadExhausted(w) /\ UNCHANGED <<replay, rand_next>>

SpecThreaded == ThreadedInit /\ [][ThreadedNext]_vars

\* C2: whenever the parallel search returns a path, under every
\* interleaving of the workers, the path has exactly pathLength coordinates,
\* is contiguous, touches no blocked cell and repeats no coordinate.
C2_ParallelPathValid ==
    (isMultithreading /\ main.pc = "returned" /\ result # NULL) =>
        IsValidPath(result, matrix, pathLength)

\* C2 is exercised: the parallel search returned a path of more than two
\* coordinates on a grid with a blocked cell.
C2_Witness ==
    /\ isMultithreading
    /\ main.pc = "returned"
    /\ result # NULL
    /\ pathLength >= 3
    /\ BlockedCells(matrix) # {}

\* C3: the completion flag never goes back to false, the result slot is
\* never written once the flag is true, and the flag and the slot are written
\* only by a worker that holds the publication lock while the flag is false.
C3_PublishedOnce ==
    [][/\ isPathFound => (isPathFound' /\ final_path' = final_path)
       /\ (isPathFound' # isPathFound \/ (final_path # NULL /\ final_path' # final_path)) =>
             /\ ~isPathFound
             /\ isPathFound'
             /\ \E w \in Threads : completion_mutex = {w} /\ thread[w].pc = "publish"]_vars

\* C3 is exercised: a worker whose own search succeeded holds the
\* publication lock after another worker set the flag and published a
\* different path.
C3_Witness ==
    /\ isMultithreading
    /\ isPathFound
    /\ \E w \in Threads :
          /\ thread[w].pc = "publish"
          /\ completion_mutex = {w}
          /\ thread[w].foundPath.currentNoOfCordsInPath = pathLength
          /\ PathCords(thread[w].foundPath) # PathCords(final_path)

C12_FullyBlockedNotFound ==
    (/\ ~isMultithreading
     /\ pathLength >= 1
     /\ BlockedCells(matrix) = Cells(matrix)) =>
        /\ ~exited
        /\ result \in {NoReturn, NULL}
        /\ main.pc = "singleThread" =>
              /\ thread[0].pc # "backtracking"
              /\ thread[0].foundPath = NULL \/ PATH_isEmpty(thread[0].foundPath)

(***************************************************************************)
(* SpecExamples: the sequential search on the square grids of the tests    *)
(* and of the usage examples, built as main builds them: 10 x 10 for a     *)
(* path of 12 and 5 x 5 for a path of 6 without blocked cells, 8 x 8 for a *)
(* path of 12 with (1,0), (2,0), (1,1) given to                            *)
(* MATRIXWORLD_matrixBlanking, and 2 x 2 for a path of 5, which does not   *)
(* exist.  The draws are the values of rand() below the side.              *)
(***************************************************************************)
ExampleCases ==
    {[side |-> 5, blocked |-> <<>>, length |-> 6],
     [side |-> 10, blocked |-> <<>>, length |-> 12],
     [side |-> 8, blocked |-> <<<<1, 0>>, <<2, 0>>, <<1, 1>>>>, length |-> 12],
     [side |-> 2, blocked |-> <<>>, length |-> 5]}

\* main: the grid, and the blocked list when there is one.
ExampleGrid(c) ==
    LET world == MATRIXWORLD_matrixInitialization(c.side, c.side).matrix IN
    IF Len(c.blocked) > 0
    THEN MATRIXWORLD_matrixBlanking(world, c.blocked).matrix
    ELSE world

ExamplesInit ==
    /\ \E c \in ExampleCases :
          /\ matrix = ExampleGrid(c)
          /\ pathLength = c.length
    /\ isMultithreading = FALSE
    /\ exited = FALSE
    /\ VectorIdle
    /\ PathIdle
    /\ usedStartingPoints = NULL
    /\ isPathFound = FALSE
    /\ final_path = NULL
    /\ used_points_mutex = {}
    /\ completion_mutex = {}
    /\ thread = <<>>
    /\ main = [pc |-> "call"]
    /\ result = NoReturn
    /\ replay = NULL
    /\ rand_next = RandUnused

ExamplesNext ==
    \/ SingleThreadStart /\ UNCHANGED <<replay, rand_next>>
    \/ \E randRow \in 0..(MATRIXWORLD_getRowSize(matrix) - 1),
          randCol \in 0..(MATRIXWORLD_getColSize(matrix) - 1) :
            SingleThreadAttempt(randRow, randCol) /\ UNCHANGED <<replay, rand_next>>
    \/ SingleThreadBacktracking /\ UNCHANGED <<replay, rand_next>>
    \/ SingleThreadNotFound /\ UNCHANGED <<replay, rand_next>>

SpecExamples == ExamplesInit /\ [][ExamplesNext]_vars

\* C13: on the 5 x 5 grid for a path of 6 and on the 10 x 10 grid for a path
\* of 12, both without blocked cells, the sequential search does not abort,
\* no attempt fails whatever origin is drawn, the loop never ends without a
\* path, and what is returned is a valid path of the requested length.
C13_OpenSquareFindsPath ==
    (<<matrix.rows, pathLength>> \in {<<5, 6>>, <<10, 12>>}) =>
        /\ ~exited
        /\ result # NULL
        /\ main.pc = "singleThread" =>
              /\ thread[0].index = 0
              /\ thread[0].index < thread[0].noOfUnblockedElements
        /\ result # NoReturn => IsValidPath(result, matrix, pathLength)
        /\ BlockedCells(matrix) = {}

\* C13 is exercised: on the 10 x 10 grid the search returned a path of 12
\* from the origin in the last row and column.
C13_Witness ==
    /\ matrix.rows = 10
    /\ pathLength = 12
    /\ result # NoReturn
    /\ result # NULL
    /\ result.pathArray[0] = <<9, 9>>

ReplayHeaps == {<<0, 0>>, <<0, 1>>}

\* A createVector that takes the bytes of the block for stored points.
STPOINT_createVector_onHeap_stored(m, heap) ==
    [STPOINT_createVector(m) EXCEPT !.points = [i \in DOMAIN @ |-> heap],
                                    !.currentSize = 1]

\* STPOINT_createVector when malloc returns a block holding heap.
STPOINT_createVector_onHeap(m, heap) ==
    [STPOINT_createVector(m) EXCEPT !.points = [i \in DOMAIN @ |-> heap]]

\* PATH_initializePath when malloc returns a block holding heap.
PATH_initializePath_onHeap(pathSize, m, heap) ==
    LET created == PATH_initializePath(pathSize, m) IN
    IF created.exit
    THEN created
    ELSE [created EXCEPT !.path.pathArray = [i \in DOMAIN @ |-> heap]]

\* A run before DFS_findPath is called.
DFS_internal_runBeforeCall(heap) ==
    [pc |-> "call", exited |-> FALSE, usedStartingPoints |-> NULL, locals |-> NULL,
     result |-> NoReturn, heap |-> heap]

\* DFS_internal_findPathSingleThread up to its loop.
DFS_internal_runStart(run, m, length) ==
    IF run.exited \/ run.pc # "call"
    THEN run
    ELSE LET created == PATH_initializePath_onHeap(length, m, run.heap) IN
         IF created.exit
         THEN [run EXCEPT !.exited = TRUE]
         ELSE [run EXCEPT !.pc = "singleThread",
                          !.usedStartingPoints = STPOINT_createVector_onHeap(m, run.heap),
                          !.locals = [DFS_internal_locals(m, length) EXCEPT
                                        !.visitedPoints =
                                            STPOINT_createVector_onHeap(m, run.heap),
                                        !.foundPath = created.path]]

\* One iteration of the loop of DFS_internal_findPathSingleThread.
DFS_internal_runAttempt(run, m, randRow, randCol) ==
    IF run.exited \/ run.pc # "singleThread"
    THEN run
    ELSE IF run.locals.pc # "loop" \/ ~(run.locals.index < run.locals.noOfUnblockedElements)
    THEN run
    ELSE
    LET t == run.locals
        visitedPoints == STPOINT_cleanVector(t.visitedPoints)
        foundPath == PATH_clearPath(t.foundPath)
        startingPoint == <<UTILITY_generateRandomNumber(t.noOfRows, randRow),
                           UTILITY_generateRandomNumber(t.noOfCols, randCol)>>
        cleared == [t EXCEPT !.visitedPoints = visitedPoints, !.foundPath = foundPath]
    IN  IF STPOINT_containsPoint(run.usedStartingPoints, startingPoint)
        THEN [run EXCEPT !.locals = DFS_internal_nextIteration(cleared)]
        ELSE LET blocked == MATRIXWORLD_isBlocked(m, startingPoint[1], startingPoint[2]) IN
             IF blocked.exit
             THEN [run EXCEPT !.exited = TRUE]
             ELSE IF blocked.value
             THEN [run EXCEPT !.locals = DFS_internal_nextIteration(cleared)]
             ELSE LET added == PATH_addCoordinates(foundPath, startingPoint[1],
                                                   startingPoint[2]) IN
                  [run EXCEPT !.usedStartingPoints =
                                  STPOINT_addPoint(run.usedStartingPoints, startingPoint),
                              !.exited = added.exit,
                              !.locals = [t EXCEPT !.pc = "backtracking",
                                                   !.startingPoint = startingPoint,
                                                   !.visitedPoints =
                                                       STPOINT_addPoint(visitedPoints,
                                                                        startingPoint),
                                                   !.foundPath = added.path]]

\* One call of DFS_internal_backtracking, and the return from the loop when
\* the outermost call returns true.
DFS_internal_runBacktracking(run, m, length) ==
    IF run.exited \/ run.pc # "singleThread"
    THEN run
    ELSE IF run.locals.pc # "backtracking"
    THEN run
    ELSE
    LET t == run.locals
        r == DFS_internal_backtracking(m, t.foundPath, t.visitedPoints, FALSE, length)
        after == [t EXCEPT !.foundPath = r.path, !.visitedPoints = r.visited]
    IN  CASE r.kind = "exit" -> [run EXCEPT !.exited = TRUE]
          [] r.kind = "call" -> [run EXCEPT !.locals = after]
          [] r.kind = "false" -> [run EXCEPT !.locals = DFS_internal_nextIteration(after)]
          [] r.kind = "true" ->
               [run EXCEPT !.pc = "returned",
                           !.locals = [after EXCEPT !.pc = "returned",
                                                    !.visitedPoints = NULL],
                           !.usedStartingPoints = NULL,
                           !.result = r.path]

\* The loop ended without a path.
DFS_internal_runNotFound(run) ==
    IF run.exited \/ run.pc # "singleThread"
    THEN run
    ELSE IF run.locals.pc # "loop" \/ run.locals.index < run.locals.noOfUnblockedElements
    THEN run
    ELSE [run EXCEPT !.pc = "returned",
                     !.locals = [@ EXCEPT !.pc = "returned", !.visitedPoints = NULL,
                                          !.foundPath = NULL],
                     !.usedStartingPoints = NULL,
                     !.result = NULL]

ReplayInit ==
    /\ matrix \in SetCellGrids(MaxCells) \cup BlankingGrids(MaxCells, MaxBlockList)
    /\ pathLength \in 0..MaxPathLength
    /\ isMultithreading = FALSE
    /\ exited = FALSE
    /\ VectorIdle
    /\ PathIdle
    /\ usedStartingPoints = NULL
    /\ isPathFound = FALSE
    /\ final_path = NULL
    /\ used_points_mutex = {}
    /\ completion_mutex = {}
    /\ thread = <<>>
    /\ main = [pc |-> "call"]
    /\ result = NoReturn
    /\ \E heap \in ReplayHeaps : replay = DFS_internal_runBeforeCall(heap)
    /\ rand_next = RandUnused

ReplayNext ==
    \/ /\ SingleThreadStart
       /\ replay' = DFS_internal_runStart(replay, matrix, pathLength)
       /\ UNCHANGED rand_next
    \/ \E randRow \in 0..MaxRand, randCol \in 0..MaxRand :
          /\ SingleThreadAttempt(randRow, randCol)
          /\ replay' = DFS_internal_runAttempt(replay, matrix, randRow, randCol)
          /\ UNCHANGED rand_next
    \/ /\ SingleThreadBacktracking
       /\ replay' = DFS_internal_runBacktracking(replay, matrix, pathLength)
       /\ UNCHANGED rand_next
    \/ /\ SingleThreadNotFound
       /\ replay' = DFS_internal_runNotFound(replay)
       /\ UNCHANGED rand_next

SpecReplay == ReplayInit /\ [][ReplayNext]_vars

\* The coordinates a returned path holds, NULL for 'not found'.
DFS_internal_outcome(returned) ==
    IF returned = NoReturn \/ returned = NULL
    THEN returned
    ELSE [i \in 0..(returned.currentNoOfCordsInPath - 1) |-> returned.pathArray[i]]

\* C15: two sequential runs on the same grid and pathLength that are fed
\* the same draws are at every step both running, both aborted or both
\* returned, and when they have returned, both returned 'not found' or both
\* returned the same coordinates in the same order, whatever the
\* uninitialised memory of each run held.
C15_SameDrawsSameOutcome ==
    replay # NULL =>
        /\ replay.exited = exited
        /\ replay.pc = main.pc
        /\ DFS_internal_outcome(replay.result) = DFS_internal_outcome(result)

\* C15 is exercised: after a failed attempt both runs returned a path of
\* more than one coordinate, and the second run's unused memory held other
\* bytes than the first one's.
C15_Witness ==
    /\ replay # NULL
    /\ replay.heap = <<0, 1>>
    /\ result # NoReturn
    /\ result # NULL
    /\ replay.result # NULL
    /\ pathLength > 1
    /\ thread[0].index > 0
    /\ DFS_internal_outcome(replay.result) = DFS_internal_outcome(result)

(***************************************************************************)
(* SpecFindPath: DFS_findPath with either value of isMultithreading: the   *)
(* sequential run of SpecSequential or the threaded run of SpecThreaded.   *)
(***************************************************************************)
FindPathInit == SequentialInit \/ ThreadedInit

FindPathNext ==
    \/ /\ ~isMultithreading
       /\ SequentialNext
    \/ /\ isMultithreading
       /\ ThreadedNext

SpecFindPath == FindPathInit /\ [][FindPathNext]_vars

\* C16: no step of DFS_findPath, sequential or threaded, changes the grid:
\* its cells, noOfBlockedCells, noOfUnblockedCells, rows and cols are at
\* every point of the search, and after it returned, what they were at the
\* call.
C16_GridUnchanged == [][matrix' = matrix]_vars

\* C16 is exercised: a threaded search on a grid with a blocked cell went
\* through a failed attempt and returned.
C16_Witness ==
    /\ isMultithreading
    /\ result # NoReturn
    /\ BlockedCells(matrix) # {}
    /\ \E w \in Threads : thread[w].index > 0

\* The workers that were created and have not left DFS_findPathThreaded.
DFS_internal_unfinished ==
    {w \in Threads : thread[w].pc \notin {"notCreated", "finished"}}

\* The worker w is inside pthread_mutex_lock and the mutex is held.
DFS_internal_blockedOnLock(w) ==
    \/ thread[w].pc = "lockUsedPoints" /\ used_points_mutex # {}
    \/ thread[w].pc = "lockCompletion" /\ completion_mutex # {}

\* C17: in a threaded search no worker holds usedStartingPointsMutex and
\* completionCondMutex at the same time, and while the process runs there is
\* no state in which every unfinished worker is blocked in
\* pthread_mutex_lock: some unfinished worker can always take a step.
C17_LocksDisjointNoDeadlock ==
    (isMultithreading /\ main.pc \in {"create", "join"}) =>
        /\ \A w \in Threads : ~(w \in used_points_mutex /\ w \in completion_mutex)
        /\ ~exited =>
             ~(/\ DFS_internal_unfinished # {}
               /\ \A w \in DFS_internal_unfinished : DFS_internal_blockedOnLock(w))

\* C17 is exercised: the two mutexes are held at once, by two workers.
C17_Witness ==
    /\ isMultithreading
    /\ main.pc = "join"
    /\ \E w, v \in Threads :
          /\ w # v
          /\ used_points_mutex = {w}
          /\ completion_mutex = {v}

\* C18: while the workers of a threaded search exist, a worker that is in the
\* section reading and writing usedStartingPoints_p holds
\* usedStartingPointsMutex and is its only holder, a worker that is in the
\* section writing *path_is_found_p and *final_path_p holds
\* completionCondMutex and is its only holder, and no step changes the set,
\* the flag or the slot other than the step of such a worker (main destroys
\* the set once every worker has finished).
C18_SharedStateUnderLocks ==
    [][(isMultithreading /\ main.pc \in {"create", "join"}) =>
          /\ Cardinality(used_points_mutex) <= 1
          /\ Cardinality(completion_mutex) <= 1
          /\ \A w \in Threads :
                /\ thread[w].pc = "usedPoints" => used_points_mutex = {w}
                /\ thread[w].pc = "publish" => completion_mutex = {w}
          /\ usedStartingPoints' # usedStartingPoints =>
                \/ /\ \A w \in Threads : thread[w].pc = "finished"
                   /\ main'.pc = "returned"
                \/ \E w \in Threads :
                      /\ used_points_mutex = {w}
                      /\ thread[w].pc = "usedPoints"
                      /\ \A v \in Threads \ {w} : thread'[v] = thread[v]
          /\ (isPathFound' # isPathFound \/ final_path' # final_path) =>
                \E w \in Threads :
                   /\ completion_mutex = {w}
                   /\ thread[w].pc = "publish"
                   /\ \A v \in Threads \ {w} : thread'[v] = thread[v]
      ]_vars

\* C18 is exercised: both workers added an origin to the set and found a
\* path; one is publishing under completionCondMutex, the other waits for it.
C18_Witness ==
    /\ isMultithreading
    /\ main.pc = "join"
    /\ STPOINT_getSize(usedStartingPoints) = 2
    /\ \E w, v \in Threads :
          /\ w # v
          /\ thread[w].pc = "publish"
          /\ completion_mutex = {w}
          /\ thread[v].pc = "lockCompletion"

\* C19: DFS_findPath in threaded mode has returned only when every worker it
\* created has finished; with the flag set it returned the shared
\* final_path, which holds a path, and with the flag clear it returned NULL.
\* Until it returns it has returned nothing.
C19_ReturnsAfterJoin ==
    isMultithreading =>
        /\ main.pc # "returned" => result = NoReturn
        /\ main.pc = "returned" =>
              /\ \A w \in Threads : thread[w].pc = "finished"
              /\ isPathFound => (result = final_path /\ result # NULL)
              /\ ~isPathFound => result = NULL

\* C19 is exercised: DFS_findPath returned the shared path after one worker
\* ran out of its budget and the other left on seeing the flag.
C19_Witness ==
    /\ isMultithreading
    /\ main.pc = "returned"
    /\ isPathFound
    /\ result = final_path
    /\ \E w, v \in Threads :
          /\ thread[w].index = thread[w].noOfUnblockedElements
          /\ thread[v].index < thread[v].noOfUnblockedElements

(***************************************************************************)
(* SpecTermination: DFS_findPath in either mode under fair scheduling.     *)
(* The calling thread and every created worker keep being scheduled: a     *)
(* thread that can take a step, and remains able to, takes one.  Nothing   *)
(* is assumed of the order in which pthread_mutex_lock serves its waiters. *)
(* The grids are those whose budget lies within MaxAttempts, the lengths   *)
(* those the command line accepts (at least 1).                            *)
(***************************************************************************)
TerminationInit ==
    /\ matrix \in BlankingGrids(MaxThreadedCells, MaxThreadedBlockList)
    /\ pathLength \in 1..MaxTerminationPathLength
    /\ isMultithreading \in BOOLEAN
    /\ exited = FALSE
    /\ VectorIdle
    /\ PathIdle
    /\ usedStartingPoints = NULL
    /\ isPathFound = FALSE
    /\ final_path = NULL
    /\ used_points_mutex = {}
    /\ completion_mutex = {}
    /\ thread = IF isMultithreading THEN [w \in Threads |-> NotCreated] ELSE <<>>
    /\ main = [pc |-> "call"]
    /\ result = NoReturn
    /\ replay = NULL
    /\ rand_next = RandUnused

\* The steps of the thread that called DFS_findPath.
MainStep ==
    \/ ~isMultithreading /\ SequentialNext
    \/ isMultithreading /\ (MainStart \/ MainCreate \/ MainJoin) /\ UNCHANGED <<replay, rand_next>>

\* The steps of the worker w.
ThreadStep(w) ==
    /\ isMultithreading
    /\ UNCHANGED <<replay, rand_next>>
    /\ \/ ThreadStart(w)
       \/ \E randRow \in 0..MaxThreadedRand, randCol \in 0..MaxThreadedRand :
             ThreadDraw(w, randRow, randCol)
       \/ ThreadLockUsedPoints(w)
       \/ ThreadUsedPoints(w)
       \/ ThreadTryStartingPoint(w)
       \/ ThreadBacktracking(w)
       \/ ThreadReadFlag(w)
       \/ ThreadLockCompletion(w)
       \/ ThreadPublish(w)
       \/ ThreadExhausted(w)

SpecTermination ==
    /\ TerminationInit
    /\ [][FindPathNext]_vars
    /\ WF_vars(MainStep)
    /\ \A w \in Threads : WF_vars(ThreadStep(w))

\* The loop of every searching thread is within its budget and its path
\* within pathLength: the recursion is never deeper than pathLength.
DFS_internal_withinBounds ==
    \A w \in DOMAIN thread :
        thread[w].pc \notin {"notCreated", "start"} =>
            /\ thread[w].index <= thread[w].noOfUnblockedElements
            /\ thread[w].foundPath # NULL =>
                  PATH_getLength(thread[w].foundPath) <= pathLength

\* C20: every search terminates.  The restart loop never goes beyond its
\* budget and the recursion never deeper than pathLength; under fair
\* scheduling every worker that was created eventually finishes and
\* DFS_findPath eventually returns.
C20_EverySearchTerminates ==
    /\ [](DFS_internal_withinBounds)
    /\ <>(/\ main.pc = "returned"
          /\ \A w \in DOMAIN thread : thread[w].pc \in {"finished", "returned"})

\* What holds in place of C20: every search ends, by a return or by exit.
C20_ReturnsOrExits ==
    /\ [](DFS_internal_withinBounds)
    /\ <>(exited \/ main.pc = "returned")

\* On square grids no search exits, and C20 holds as stated.
C20_SquareGridsReturn ==
    (matrix.rows = matrix.cols) => C20_EverySearchTerminates

\* C21: in a threaded search, when *path_is_found_p is true, a worker whose
\* check before an attempt reads it makes no initial call of
\* DFS_internal_backtracking, and a call of DFS_internal_backtracking
\* entered with a path shorter than pathLength returns false and appends
\* nothing: after it the worker's path is no longer than before and no
\* longer ends in the coordinate the call was entered with, unless that was
\* the starting point, which stays (what follows the return is the caller's
\* loop, which pops that coordinate and goes on).
C21_CooperativeCancellation ==
    [][(isMultithreading /\ isPathFound /\ ~exited /\ main.pc = "join") =>
          \A w \in Threads :
             /\ thread[w].pc = "tryStartingPoint" => thread'[w].pc # "backtracking"
             /\ (/\ thread[w].pc = "backtracking"
                 /\ thread'[w] # thread[w]
                 /\ PATH_getLength(thread[w].foundPath) < pathLength) =>
                   /\ thread'[w].pc \in {"backtracking", "readFlag"}
                   /\ PATH_getLength(thread'[w].foundPath)
                         <= PATH_getLength(thread[w].foundPath)
                   /\ PATH_getLength(thread[w].foundPath) = 1 =>
                         /\ thread'[w].pc = "readFlag"
                         /\ thread'[w].foundPath = thread[w].foundPath
                   /\ PATH_getLength(thread[w].foundPath) > 1 =>
                         PathCords(thread'[w].foundPath)
                            # PathCords(thread[w].foundPath)
      ]_vars

\* C21 is exercised: the flag is set while another worker is inside its
\* recursion with a path of two coordinates, one short of pathLength.
C21_Witness ==
    /\ isMultithreading
    /\ isPathFound
    /\ pathLength = 3
    /\ \E w \in Threads :
          /\ thread[w].pc = "backtracking"
          /\ PATH_getLength(thread[w].foundPath) = 2

(***************************************************************************)
(* SpecRandom: the threaded search with the calls of rand() made visible.  *)
(* UTILITY_generateRandomNumber calls rand(), whose state is one hidden    *)
(* object of the C library shared by all threads; the workers call it at   *)
(* the head of each iteration, before they take any mutex.  A call loads   *)
(* the state and stores the advanced state; the C standard does not        *)
(* require the two to be one indivisible step, so they are two steps here. *)
(* The state is the position in the generator's sequence, counted modulo   *)
(* MaxRandState; the value delivered at a position is left open.           *)
(***************************************************************************)
\* rand(), first half: the calling thread loads the generator's state.
rand_load(g, w) == [g EXCEPT !.loaded = (w :> g.next) @@ g.loaded]

\* rand(), second half: the state the thread loaded, advanced by one
\* position, is stored and the call returns.
rand_store(g, w) ==
    [next |-> (g.loaded[w] + 1) % MaxRandState,
     loaded |-> [v \in DOMAIN g.loaded \ {w} |-> g.loaded[v]]]

RandomInit ==
    /\ TerminationInit
    /\ isMultithreading

\* The head of an iteration up to the load inside the first rand() (the
\* row), and the call for the column up to its load.
ThreadRand_load(w) ==
    /\ ~exited
    /\ \/ /\ thread[w].pc = "loop"
          /\ thread[w].index < thread[w].noOfUnblockedElements
          /\ thread[w].index < MaxAttempts
          /\ thread' = [thread EXCEPT ![w] =
                          [@ EXCEPT !.pc = "randRow",
                                    !.visitedPoints = STPOINT_cleanVector(@),
                                    !.foundPath = PATH_clearPath(@),
                                    !.isStartingPointValid = FALSE]]
       \/ /\ thread[w].pc = "drawCol"
          /\ thread' = [thread EXCEPT ![w].pc = "randCol"]
    /\ rand_next' = rand_load(rand_next, w)
    /\ UNCHANGED <<matrix, exited, vector, members, path, ret, pathLength, isMultithreading,
                   usedStartingPoints, isPathFound, final_path, used_points_mutex,
                   completion_mutex, main, result, replay>>

\* The rest of a rand() and of the UTILITY_generateRandomNumber around it:
\* the state is stored, returnValue is the value the rejection loop took.
ThreadRand_store(w, returnValue) ==
    /\ ~exited
    /\ \/ /\ thread[w].pc = "randRow"
          /\ thread' = [thread EXCEPT ![w] =
                          [@ EXCEPT !.pc = "drawCol",
                                    !.startingPoint =
                                        <<UTILITY_generateRandomNumber(thread[w].noOfRows,
                                                                       returnValue),
                                          0>>]]
       \/ /\ thread[w].pc = "randCol"
          /\ thread' = [thread EXCEPT ![w] =
                          [@ EXCEPT !.pc = "lockUsedPoints",
                                    !.startingPoint =
                                        <<@[1],
                                          UTILITY_generateRandomNumber(thread[w].noOfCols,
                                                                       returnValue)>>]]
    /\ rand_next' = rand_store(rand_next, w)
    /\ UNCHANGED <<matrix, exited, vector, members, path, ret, pathLength, isMultithreading,
                   usedStartingPoints, isPathFound, final_path, used_points_mutex,
                   completion_mutex, main, result, replay>>

RandomNext ==
    \/ MainStart /\ UNCHANGED <<replay, rand_next>>
    \/ MainCreate /\ UNCHANGED <<replay, rand_next>>
    \/ MainJoin /\ UNCHANGED <<replay, rand_next>>
    \/ \E w \in Threads :
          \/ ThreadStart(w) /\ UNCHANGED <<replay, rand_next>>
          \/ ThreadRand_load(w)
          \/ \E returnValue \in 0..MaxThreadedRand : ThreadRand_store(w, returnValue)
          \/ ThreadLockUsedPoints(w) /\ UNCHANGED <<replay, rand_next>>
          \/ ThreadUsedPoints(w) /\ UNCHANGED <<replay, rand_next>>
          \/ ThreadTryStartingPoint(w) /\ UNCHANGED <<replay, rand_next>>
          \/ ThreadBacktracking(w) /\ UNCHANGED <<replay, rand_next>>
          \/ ThreadReadFlag(w) /\ UNCHANGED <<replay, rand_next>>
          \/ ThreadLockCompletion(w) /\ UNCHANGED <<replay, rand_next>>
          \/ ThreadPublish(w) /\ UNCHANGED <<replay, rand_next>>
          \/ ThreadExhausted(w) /\ UNCHANGED <<replay, rand_next>>

SpecRandom == RandomInit /\ [][RandomNext]_vars

\* The workers that are inside a call of rand().
DFS_internal_insideRand == DOMAIN rand_next.loaded

\* C22: in a threaded search the state of the generator is never accessed by
\* two workers at once: no two workers are inside rand() at the same time.
C22_GeneratorNotShared == Cardinality(DFS_internal_insideRand) <= 1

\* What the code does keep: a worker inside rand() holds neither mutex, so
\* nothing of the program orders its call against another worker's.
C22_DrawsOutsideLocks ==
    \A w \in DFS_internal_insideRand :
        w \notin used_points_mutex /\ w \notin completion_mutex

\* The consequence: two workers that loaded the same state store the same
\* successor, and one position of the sequence is delivered twice.
C22_LostAdvance ==
    \A v \in DFS_internal_insideRand, w \in DFS_internal_insideRand :
        v # w => rand_next.loaded[v] # rand_next.loaded[w]

(***************************************************************************)
(* The Path under its operations (SpecPath), continued.                    *)
(***************************************************************************)
\* C23: PATH_getLastCoordinates on a path that holds coordinates returns the
\* last one and changes nothing; PATH_popCoordinates returns that same one,
\* takes the length down by one and leaves the earlier coordinates as they
\* were, so that a pop after an add gives back the coordinates the path
\* held.  On an empty path both return (UINT16_MAX, UINT16_MAX), the
\* process goes on and the length stays 0.
C23_PeekAndPop ==
    [][LET held == PathCords(path)
           length == Len(held)
           sentinel == <<UINT16_MAX, UINT16_MAX>>
       IN  /\ PathGetLast =>
                /\ path' = path
                /\ ~exited'
                /\ ret'.value = IF length = 0 THEN sentinel ELSE held[length]
           /\ PathPop =>
                /\ ~exited'
                /\ ret'.value = IF length = 0 THEN sentinel ELSE held[length]
                /\ ret'.value = PATH_getLastCoordinates(path)
                /\ path'.pathSize = path.pathSize
                /\ PathCords(path') = IF length = 0 THEN <<>>
                                      ELSE SubSeq(held, 1, length - 1)
           /\ \A c \in PathInputCords :
                PathAdd(c[1], c[2]) /\ ~exited' =>
                   LET popped == PATH_popCoordinates(path') IN
                     /\ popped.value = c
                     /\ PathCords(popped.path) = held
      ]_vars

\* C23 is exercised: a pop of an empty path answered with
\* (UINT16_MAX, UINT16_MAX) and the process went on, the path still empty.
C23_Witness ==
    /\ path # NULL
    /\ ~exited
    /\ PATH_getLength(path) = 0
    /\ path.pathSize >= 2
    /\ ret = [op |-> "pop", value |-> <<UINT16_MAX, UINT16_MAX>>]

\* C24: the length of a path stays between 0 and pathSize whatever is added,
\* popped or cleared; PATH_addCoordinates on a full path exits the process
\* and stores nothing; PATH_clearPath takes the length to 0 and keeps
\* pathSize.
C24_LengthWithinCapacity ==
    [][/\ path' # NULL =>
            /\ PATH_getLength(path') >= 0
            /\ PATH_getLength(path') <= path'.pathSize
       /\ \A c \in PathInputCords :
            (PathAdd(c[1], c[2]) /\ PATH_getLength(path) = path.pathSize) =>
                exited' /\ path' = path
       /\ \A c \in PathInputCords :
            (PathAdd(c[1], c[2]) /\ PATH_getLength(path) < path.pathSize) =>
                /\ ~exited'
                /\ PathCords(path') = Append(PathCords(path), c)
                /\ path'.pathSize = path.pathSize
       /\ PathClear =>
            /\ ~exited'
            /\ PATH_getLength(path') = 0
            /\ path'.pathSize = path.pathSize
      ]_vars

\* C24 is exercised: the process exited on an add to a path that was full
\* with more than one coordinate.
C24_Witness ==
    /\ path # NULL
    /\ exited
    /\ path.pathSize >= 2
    /\ PATH_getLength(path) = path.pathSize

\* The Manhattan distance of two coordinates.
C25_Distance(a, b) == AbsDiff(a[1], b[1]) + AbsDiff(a[2], b[2])

\* C25: PATH_isContiguous answers true for a path of no or one coordinate,
\* and otherwise true exactly when every two consecutive coordinates are at
\* Manhattan distance 1; it leaves the path as it was.
C25_IsContiguous ==
    [][PathIsContiguous =>
          LET held == PathCords(path) IN
            /\ path' = path
            /\ ~exited'
            /\ Len(held) <= 1 => ret'.value = TRUE
            /\ Len(held) >= 2 =>
                 (ret'.value = TRUE <=>
                    \A i \in 1..(Len(held) - 1) : C25_Distance(held[i], held[i + 1]) = 1)
      ]_vars

\* C25 is exercised: the query answered false for a path of three
\* coordinates whose first step is a step and whose second is diagonal.
C25_Witness ==
    /\ path # NULL
    /\ ~exited
    /\ ret = [op |-> "isContiguous", value |-> FALSE]
    /\ PATH_getLength(path) = 3
    /\ C25_Distance(path.pathArray[0], path.pathArray[1]) = 1
    /\ C25_Distance(path.pathArray[1], path.pathArray[2]) = 2

(***************************************************************************)
(* SpecGridCalls: a WorldMatrix under construction, resize, setCell,       *)
(* clearMatrix and the two queries that take coordinates.  The sides run   *)
(* from 0 to MaxGridSide, so that grids of 0 to 3 cells are asked for.     *)
(***************************************************************************)
GridCallDims == (0..MaxGridSide) \X (0..MaxGridSide)

GridResize(rows, cols) ==
    /\ ~exited
    /\ LET r == MATRIXWORLD_matrixResize(matrix, rows, cols) IN
          /\ matrix' = IF r.exit THEN matrix ELSE r.matrix
          /\ exited' = r.exit
    /\ UNCHANGED <<vector, members, path, ret>>
    /\ UNCHANGED searchVars

GridIsBlocked(row, col) ==
    /\ ~exited
    /\ matrix # NULL
    /\ LET r == MATRIXWORLD_isBlocked(matrix, row, col) IN
          /\ exited' = r.exit
          /\ ret' = IF r.exit THEN ret
                    ELSE [op |-> "isBlocked", row |-> row, col |-> col, value |-> r.value]
    /\ UNCHANGED <<matrix, vector, members, path>>
    /\ UNCHANGED searchVars

GridCountUnblockedNeighbors(row, col) ==
    /\ ~exited
    /\ matrix # NULL
    /\ LET r == MATRIXWORLD_countUnblockedNeighbors(matrix, row, col) IN
          /\ exited' = r.exit
          /\ ret' = IF r.exit THEN ret
                    ELSE [op |-> "countUnblockedNeighbors", row |-> row, col |-> col,
                          value |-> r.value]
    /\ UNCHANGED <<matrix, vector, members, path>>
    /\ UNCHANGED searchVars

GridCallsNext ==
    \/ \E d \in GridCallDims : GridInitialize(d[1], d[2]) /\ UNCHANGED <<replay, rand_next>>
    \/ \E d \in GridCallDims : GridResize(d[1], d[2]) /\ UNCHANGED <<replay, rand_next>>
    \/ /\ matrix # NULL
       /\ \E c \in InputCords(matrix), state \in BOOLEAN :
             GridSetCell(c[1], c[2], state) /\ UNCHANGED <<replay, rand_next>>
    \/ GridClear /\ UNCHANGED <<replay, rand_next>>
    \/ /\ matrix # NULL
       /\ \E c \in InputCords(matrix) :
             GridIsBlocked(c[1], c[2]) /\ UNCHANGED <<replay, rand_next>>
    \/ /\ matrix # NULL
       /\ \E c \in InputCords(matrix) :
             GridCountUnblockedNeighbors(c[1], c[2]) /\ UNCHANGED <<replay, rand_next>>

SpecGridCalls == GridInit /\ [][GridCallsNext]_vars

\* The state stored for the cell c of the grid m.
CellState(m, c) == m.worldMatrix[(c[1] * m.cols) + c[2]]

\* C26: MATRIXWORLD_setCell on a cell that is already in the state asked
\* for, and MATRIXWORLD_clearMatrix on a grid that has no blocked cell,
\* return and leave the cells and both counts as they were; a setCell
\* repeated with the same arguments changes nothing the first did not.
C26_RedundantCallsChangeNothing ==
    [][matrix # NULL =>
          /\ \A c \in Cells(matrix), state \in BOOLEAN :
                GridSetCell(c[1], c[2], state) =>
                   /\ ~exited'
                   /\ CellState(matrix, c) = state => matrix' = matrix
                   /\ MATRIXWORLD_setCell(matrix', c[1], c[2], state).matrix = matrix'
          /\ (GridClear /\ BlockedCells(matrix) = {}) =>
                /\ ~exited'
                /\ matrix' = matrix
      ]_vars

\* C27: MATRIXWORLD_isBlocked, MATRIXWORLD_setCell and
\* MATRIXWORLD_countUnblockedNeighbors called with row >= rows or
\* col >= cols exit the process: the grid is as it was and no value is
\* returned.
C27_OutOfRangeAborts ==
    [][matrix # NULL =>
          \A c \in InputCords(matrix) \ Cells(matrix) :
             (\/ \E state \in BOOLEAN : GridSetCell(c[1], c[2], state)
              \/ GridIsBlocked(c[1], c[2])
              \/ GridCountUnblockedNeighbors(c[1], c[2])) =>
                 /\ exited'
                 /\ matrix' = matrix
                 /\ ret' = ret
      ]_vars

\* C27 is exercised: the process exited on a call with a coordinate out of
\* range, after a query in range had returned the state of a blocked cell.
C27_Witness ==
    /\ matrix # NULL
    /\ exited
    /\ ret # NoReturn
    /\ ret.op = "isBlocked"
    /\ ret.value = TRUE
    /\ BlockedCells(matrix) # {}

\* C28: MATRIXWORLD_matrixInitialization and MATRIXWORLD_matrixResize asked
\* for rows * cols < 4 exit the process, so that no grid of 0 to 3 cells
\* exists; a grid they make has every cell unblocked, no blocked cell
\* counted and rows * cols unblocked cells counted.
C28_ConstructionNeedsFourCells ==
    [][/\ matrix' # NULL => matrix'.worldSize >= MINIMUM_MATRIX_SIZE
       /\ \A d \in GridCallDims :
             (GridInitialize(d[1], d[2]) \/ (matrix # NULL /\ GridResize(d[1], d[2]))) =>
                IF d[1] * d[2] < MINIMUM_MATRIX_SIZE
                THEN exited' /\ matrix' = matrix
                ELSE /\ ~exited'
                     /\ matrix'.rows = d[1]
                     /\ matrix'.cols = d[2]
                     /\ matrix'.worldSize = d[1] * d[2]
                     /\ BlockedCells(matrix') = {}
                     /\ MATRIXWORLD_getNoOfBlockedCells(matrix') = 0
                     /\ MATRIXWORLD_getNoOfUnblockedCells(matrix') = d[1] * d[2]
      ]_vars

\* C28 is exercised: a grid in which a cell was found blocked has been
\* resized to a grid without the row of that cell, every cell unblocked,
\* and the process has exited since.
C28_Witness ==
    /\ matrix # NULL
    /\ exited
    /\ BlockedCells(matrix) = {}
    /\ matrix.noOfUnblockedCells = matrix.rows * matrix.cols
    /\ ret # NoReturn
    /\ ret.op = "isBlocked"
    /\ ret.value = TRUE
    /\ ret.row >= matrix.rows

(***************************************************************************)
(* SpecTallGrid: the same calls on a grid of one column and INT16_MAX + 2  *)
(* rows, at the rows around INT16_MAX.                                     *)
(***************************************************************************)
TallGridRows == INT16_MAX + 2

TallInputRows == (INT16_MAX - 2)..(INT16_MAX + 1)

TallGridInit ==
    /\ matrix = MATRIXWORLD_matrixInitialization(TallGridRows, 1).matrix
    /\ exited = FALSE
    /\ VectorIdle
    /\ PathIdle
    /\ SearchIdle

TallGridNext ==
    \/ \E row \in TallInputRows, state \in BOOLEAN :
          GridSetCell(row, 0, state) /\ UNCHANGED <<replay, rand_next>>
    \/ GridClear /\ UNCHANGED <<replay, rand_next>>
    \/ \E row \in TallInputRows : GridIsBlocked(row, 0) /\ UNCHANGED <<replay, rand_next>>
    \/ \E row \in TallInputRows :
          GridCountUnblockedNeighbors(row, 0) /\ UNCHANGED <<replay, rand_next>>

SpecTallGrid == TallGridInit /\ [][TallGridNext]_vars

\* The unblocked cells of the grid m among the four neighbours of (row, col).
C29_UnblockedNeighbours(m, row, col) ==
    {n \in {<<row, col + 1>>, <<row, col - 1>>, <<row + 1, col>>, <<row - 1, col>>} :
        /\ n[1] >= 0 /\ n[1] < m.rows
        /\ n[2] >= 0 /\ n[2] < m.cols
        /\ ~CellState(m, n)}

\* C29: MATRIXWORLD_countUnblockedNeighbors for a cell of the grid returns
\* the number of unblocked cells of the grid among its four neighbours and
\* changes nothing.
C29_CountsUnblockedNeighbours ==
    [][(/\ ret' # ret
        /\ ret'.op = "countUnblockedNeighbors") =>
           /\ matrix' = matrix
           /\ ~exited'
           /\ ret'.value =
                 Cardinality(C29_UnblockedNeighbours(matrix, ret'.row, ret'.col))
      ]_vars

\* The iterations the restart loop of the sequential search has begun.
C30_Iterations ==
    IF thread[0].pc \in {"loop", "returned"} THEN thread[0].index
    ELSE thread[0].index + 1

\* C30: the restart loop of the sequential search runs at most as many
\* iterations as the grid has unblocked cells when DFS_findPath is called,
\* also when the cells were blocked through MATRIXWORLD_matrixBlanking.
C30_BudgetIsUnblockedCells ==
    (~isMultithreading /\ main.pc \in {"singleThread", "returned"}) =>
        C30_Iterations <= Cardinality(Cells(matrix) \ BlockedCells(matrix))

\* What the code does keep: the loop runs at most as many iterations as the
\* stored count read through MATRIXWORLD_getNoOfUnblockedCells.
C30_BudgetIsStoredCount ==
    (~isMultithreading /\ main.pc \in {"singleThread", "returned"}) =>
        C30_Iterations <= MATRIXWORLD_getNoOfUnblockedCells(matrix)

(***************************************************************************)
(* The recursion of the search, step by step (SpecSequential).             *)
(***************************************************************************)
\* The neighbours of the coordinate c in the order (+0,+1), (+0,-1),
\* (+1,+0), (-1,+0).
C31_Neighbours(c) ==
    <<<<c[1], c[2] + 1>>, <<c[1], c[2] - 1>>, <<c[1] + 1, c[2]>>, <<c[1] - 1, c[2]>>>>

\* Those of them that are cells of the grid m, unblocked and not among the
\* coordinates of visited, in that order.
C31_Candidates(m, c, visited) ==
    LET Good(n) == /\ n[1] >= 0 /\ n[1] < m.rows
                   /\ n[2] >= 0 /\ n[2] < m.cols
                   /\ ~CellState(m, n)
                   /\ \A i \in 1..visited.currentSize : visited.points[i - 1] # n
    IN  SelectSeq(C31_Neighbours(c), Good)

\* A step of the sequential search that is a call of
\* DFS_internal_backtracking.
C31_CallStep ==
    /\ ~isMultithreading
    /\ ~exited
    /\ main.pc = "singleThread"
    /\ thread[0].pc = "backtracking"
    /\ thread' # thread \/ exited' # exited

\* What C31 asks of a call entered with the path p and the set visited.
C31_CallAsSpecified ==
    LET p == thread[0].foundPath
        visited == thread[0].visitedPoints
        held == PathCords(p)
        candidates == C31_Candidates(matrix, held[Len(held)], visited)
    IN  IF Len(held) = pathLength
        THEN /\ main'.pc = "returned"
             /\ result' = p
        ELSE IF candidates # <<>>
        THEN /\ ~exited'
             /\ thread'[0].pc = "backtracking"
             /\ PathCords(thread'[0].foundPath) = Append(held, candidates[1])
             /\ VectorCords(thread'[0].visitedPoints)
                   = VectorCords(STPOINT_addPoint(visited, candidates[1]))
        ELSE /\ ~exited'
             /\ thread'[0].visitedPoints.currentSize >= visited.currentSize
             /\ Len(held) = 1 =>
                   /\ thread'[0].pc = "loop"
                   /\ thread'[0].foundPath = p
             /\ Len(held) > 1 =>
                   /\ PATH_getLength(thread'[0].foundPath) <= Len(held)
                   /\ PathCords(thread'[0].foundPath) # held

\* C31: a call of DFS_internal_backtracking whose path has pathLength
\* coordinates returns true and looks at no neighbour; otherwise it takes
\* the neighbours of the last coordinate in the order (+0,+1), (+0,-1),
\* (+1,+0), (-1,+0) and appends the first whose row is in [0, rows), whose
\* column is in [0, cols), which is unblocked and not in visited; when there
\* is none it returns false with the path as long as at its entry (the
\* caller then pops its own coordinate).
C31_ExtendTriesNeighboursInOrder ==
    [][C31_CallStep => C31_CallAsSpecified]_vars

\* What the code does keep: C31 on the grids with as many rows as columns.
C31_SquareGrids ==
    [][(C31_CallStep /\ matrix.rows = matrix.cols) => C31_CallAsSpecified]_vars

\* The set of the coordinates a sequence holds.
CordsOf(q) == {q[i] : i \in DOMAIN q}

\* C32: within one attempt the visited set only grows: a step of the
\* recursion marks at most one coordinate, the one it appends, which was not
\* marked before; every coordinate of the path is marked and a coordinate
\* popped from the path stays marked, so that none is appended twice in the
\* attempt.
C32_VisitedOnlyGrows ==
    [][\A t \in DOMAIN thread :
          (/\ thread[t].pc = "backtracking"
           /\ thread'[t].pc = "backtracking"
           /\ thread'[t] # thread[t]) =>
             LET marked == CordsOf(VectorCords(thread[t].visitedPoints))
                 markedAfter == CordsOf(VectorCords(thread'[t].visitedPoints))
                 held == PathCords(thread[t].foundPath)
                 heldAfter == PathCords(thread'[t].foundPath)
             IN  /\ marked \subseteq markedAfter
                 /\ CordsOf(held) \subseteq marked
                 /\ CordsOf(heldAfter) \subseteq markedAfter
                 /\ markedAfter \ marked = {heldAfter[Len(heldAfter)]}
                 /\ thread'[t].visitedPoints.currentSize
                       = thread[t].visitedPoints.currentSize + 1
      ]_vars

\* C32 is exercised: in the middle of an attempt, after a coordinate has
\* been appended in its place, the visited set still holds a coordinate
\* that was popped from the path.
C32_Witness ==
    /\ ~exited
    /\ \E t \in DOMAIN thread :
          /\ thread[t].pc = "backtracking"
          /\ PATH_getLength(thread[t].foundPath) >= 2
          /\ Cardinality(CordsOf(VectorCords(thread[t].visitedPoints))
                           \ CordsOf(PathCords(thread[t].foundPath))) >= 1

(***************************************************************************)
(* SpecOrigins: DFS_findPath in either mode, with the section under        *)
(* used_points_mutex_p taken access by access: the worker first asks       *)
(* STPOINT_containsPoint and then, in a step of its own, calls             *)
(* STPOINT_addPoint and unlocks.                                           *)
(***************************************************************************)
\* The test of the set of tried origins left out: every drawn point goes on
\* to the insertion.
ThreadContainsUsedPoint_unchecked(w) ==
    /\ ~exited
    /\ thread[w].pc = "usedPoints"
    /\ thread' = [thread EXCEPT ![w].pc = "addUsedPoint"]
    /\ UNCHANGED <<matrix, exited, vector, members, path, ret, pathLength, isMultithreading,
                   usedStartingPoints, isPathFound, final_path, used_points_mutex,
                   completion_mutex, main, result>>

\* pthread_mutex_lock is behind: if (!STPOINT_containsPoint(...)).  A point
\* found in the set leaves the section at once.
ThreadContainsUsedPoint(w) ==
    /\ ~exited
    /\ thread[w].pc = "usedPoints"
    /\ IF STPOINT_containsPoint(usedStartingPoints, thread[w].startingPoint)
       THEN /\ thread' = [thread EXCEPT ![w] =
                            [@ EXCEPT !.pc = "tryStartingPoint",
                                      !.isStartingPointValid = FALSE]]
            /\ used_points_mutex' = used_points_mutex \ {w}
       ELSE /\ thread' = [thread EXCEPT ![w].pc = "addUsedPoint"]
            /\ UNCHANGED used_points_mutex
    /\ UNCHANGED <<matrix, exited, vector, members, path, ret, pathLength, isMultithreading,
                   usedStartingPoints, isPathFound, final_path, completion_mutex, main,
                   result>>

\* STPOINT_addPoint(usedStartingPoints_p, startingPoint);
\* isStartingPointValid = true; pthread_mutex_unlock.
ThreadAddUsedPoint(w) ==
    /\ ~exited
    /\ thread[w].pc = "addUsedPoint"
    /\ usedStartingPoints' = STPOINT_addPoint(usedStartingPoints, thread[w].startingPoint)
    /\ thread' = [thread EXCEPT ![w] =
                    [@ EXCEPT !.pc = "tryStartingPoint", !.isStartingPointValid = TRUE]]
    /\ used_points_mutex' = used_points_mutex \ {w}
    /\ UNCHANGED <<matrix, exited, vector, members, path, ret, pathLength, isMultithreading,
                   isPathFound, final_path, completion_mutex, main, result>>

OriginsNext ==
    \/ ~isMultithreading /\ SingleThreadStart /\ UNCHANGED <<replay, rand_next>>
    \/ \E randRow \in 0..MaxRand, randCol \in 0..MaxRand :
          ~isMultithreading /\ SingleThreadAttempt(randRow, randCol)
             /\ UNCHANGED <<replay, rand_next>>
    \/ ~isMultithreading /\ SingleThreadBacktracking /\ UNCHANGED <<replay, rand_next>>
    \/ ~isMultithreading /\ SingleThreadNotFound /\ UNCHANGED <<replay, rand_next>>
    \/ isMultithreading /\ MainStart /\ UNCHANGED <<replay, rand_next>>
    \/ isMultithreading /\ MainCreate /\ UNCHANGED <<replay, rand_next>>
    \/ isMultithreading /\ MainJoin /\ UNCHANGED <<replay, rand_next>>
    \/ \E w \in Threads :
          \/ isMultithreading /\ ThreadStart(w) /\ UNCHANGED <<replay, rand_next>>
          \/ \E randRow \in 0..MaxThreadedRand, randCol \in 0..MaxThreadedRand :
                isMultithreading /\ ThreadDraw(w, randRow, randCol)
                   /\ UNCHANGED <<replay, rand_next>>
          \/ isMultithreading /\ ThreadLockUsedPoints(w) /\ UNCHANGED <<replay, rand_next>>
          \/ isMultithreading /\ ThreadContainsUsedPoint(w)
                /\ UNCHANGED <<replay, rand_next>>
          \/ isMultithreading /\ ThreadAddUsedPoint(w) /\ UNCHANGED <<replay, rand_next>>
          \/ isMultithreading /\ ThreadTryStartingPoint(w)
                /\ UNCHANGED <<replay, rand_next>>
          \/ isMultithreading /\ ThreadBacktracking(w) /\ UNCHANGED <<replay, rand_next>>
          \/ isMultithreading /\ ThreadReadFlag(w) /\ UNCHANGED <<replay, rand_next>>
          \/ isMultithreading /\ ThreadLockCompletion(w)
                /\ UNCHANGED <<replay, rand_next>>
          \/ isMultithreading /\ ThreadPublish(w) /\ UNCHANGED <<replay, rand_next>>
          \/ isMultithreading /\ ThreadExhausted(w) /\ UNCHANGED <<replay, rand_next>>

SpecOrigins == FindPathInit /\ [][OriginsNext]_vars

\* The coordinates in the set of the origins already tried.
UsedOrigins(used) ==
    IF used = NULL THEN {} ELSE CordsOf(VectorCords(used))

\* The steps in which the searching thread t starts an attempt.
C33_AttemptStarts(t) ==
    /\ thread[t].pc # "backtracking"
    /\ thread'[t].pc = "backtracking"

\* C33: within one call of DFS_findPath each coordinate is the origin of at
\* most one attempt.  The set of tried origins only grows until the call
\* frees it.  The sequential search starts an attempt only from a
\* coordinate that is not in the set and puts it there in the same step.  A
\* worker starts an attempt only from the coordinate it found absent and
\* put into the set itself, holding used_points_mutex_p from the test to
\* the insertion, once per insertion, and no two workers hold the same
\* coordinate as theirs at the same time.
C33_OneAttemptPerOrigin ==
    [][/\ (usedStartingPoints # NULL /\ usedStartingPoints' # NULL) =>
             UsedOrigins(usedStartingPoints)
                \subseteq UsedOrigins(usedStartingPoints')
       /\ \A t \in DOMAIN thread :
             /\ C33_AttemptStarts(t) =>
                   LET origin == thread'[t].startingPoint IN
                     /\ PathCords(thread'[t].foundPath) = <<origin>>
                     /\ origin \in UsedOrigins(usedStartingPoints')
                     /\ IF isMultithreading
                        THEN /\ thread[t].isStartingPointValid
                             /\ thread[t].startingPoint = origin
                             /\ \A v \in DOMAIN thread \ {t} :
                                   thread[v].isStartingPointValid =>
                                      thread[v].startingPoint # origin
                        ELSE origin \notin UsedOrigins(usedStartingPoints)
             /\ (~thread[t].isStartingPointValid /\ thread'[t].isStartingPointValid) =>
                   /\ thread'[t].startingPoint = thread[t].startingPoint
                   /\ thread[t].startingPoint
                         \notin UsedOrigins(usedStartingPoints)
                   /\ thread[t].startingPoint
                         \in UsedOrigins(usedStartingPoints')
                   /\ used_points_mutex = {t}
             /\ (thread[t].pc = "backtracking" /\ thread'[t].pc = "loop") =>
                   ~thread'[t].isStartingPointValid
      ]_vars

\* C33 is exercised: a worker is in an attempt from an origin while the
\* other, which drew the same coordinate, has found it in the set and holds
\* it as not valid.
C33_Witness ==
    /\ isMultithreading
    /\ ~exited
    /\ \E v \in Threads, w \in Threads :
          /\ v # w
          /\ thread[v].pc = "backtracking"
          /\ thread[v].isStartingPointValid
          /\ thread[w].pc = "tryStartingPoint"
          /\ ~thread[w].isStartingPointValid
          /\ thread[w].startingPoint = thread[v].startingPoint

\* Every member of the set of tried origins is a cell of the grid that is
\* not blocked.
C34_MembersAreUnblockedCells ==
    (usedStartingPoints # NULL /\ matrix # NULL) =>
       \A c \in UsedOrigins(usedStartingPoints) :
          /\ c \in Cells(matrix)
          /\ ~CellState(matrix, c)

\* C34: a coordinate is put into the set of tried origins only when an
\* attempt is started from it: in both modes every member of the set is an
\* in-bounds unblocked cell that was the origin of an attempt; a draw of a
\* blocked cell and a draw made after the flag is set are not put there.
C34_MarkedOnlyWhenAttempted ==
    /\ C34_MembersAreUnblockedCells
    /\ \A t \in DOMAIN thread :
          (/\ isMultithreading
           /\ isPathFound
           /\ thread[t].pc = "tryStartingPoint"
           /\ thread[t].isStartingPointValid
           /\ usedStartingPoints # NULL) =>
             thread[t].startingPoint \notin UsedOrigins(usedStartingPoints)

\* C34 for the sequential search alone: there the point is put into the set
\* behind both tests, in the step that starts the attempt from it.
C34_SequentialMarks ==
    [][~isMultithreading =>
         /\ C34_MembersAreUnblockedCells
         /\ (usedStartingPoints # NULL /\ usedStartingPoints' # NULL) =>
               \A c \in UsedOrigins(usedStartingPoints')
                          \ UsedOrigins(usedStartingPoints) :
                  \E t \in DOMAIN thread :
                     /\ C33_AttemptStarts(t)
                     /\ PathCords(thread'[t].foundPath) = <<c>>]_vars

(***************************************************************************)
(* SpecGenerator: one call of UTILITY_generateRandomNumber, statement by   *)
(* statement.  ret holds the argument, the locals validRange and           *)
(* returnValue and the value returned.                                     *)
(***************************************************************************)
\* RAND_MAX of the C library the program is built with.
RAND_MAX == 2147483647

MaxUpperBound == 24
MaxRandDraw == 4

\* uint16_t validRange = RAND_MAX - (RAND_MAX % upperBound): the int value
\* is converted to 16 bits.
UTILITY_validRange_wide(upperBound) == RAND_MAX - (RAND_MAX % upperBound)

UTILITY_validRange(upperBound) == Uint16(RAND_MAX - (RAND_MAX % upperBound))

\* Values of rand() the loop is run with: the smallest ones, the ones
\* around validRange and the largest.
GeneratorDraws(validRange) ==
    {r \in (0..MaxRandDraw) \cup {validRange - 2, validRange - 1, validRange, RAND_MAX} :
        r >= 0 /\ r <= RAND_MAX}

GeneratorInit ==
    /\ matrix = NULL
    /\ exited = FALSE
    /\ vector = NULL
    /\ members = {}
    /\ path = NULL
    /\ SearchIdle
    /\ \E upperBound \in (0..MaxUpperBound) \cup {UINT16_MAX} :
          ret = [op |-> "call", upperBound |-> upperBound, validRange |-> 0,
                 returnValue |-> 0, value |-> 0]

\* if (upperBound == 0) return UINT16_MAX; otherwise validRange is computed.
GeneratorEnter ==
    /\ ret.op = "call"
    /\ ret' = IF ret.upperBound = 0
              THEN [ret EXCEPT !.op = "return", !.value = UINT16_MAX]
              ELSE [ret EXCEPT !.op = "rand",
                               !.validRange = UTILITY_validRange(ret.upperBound)]
    /\ UNCHANGED <<matrix, exited, vector, members, path, searchVars>>

\* returnValue = rand();
GeneratorRand(r) ==
    /\ ret.op = "rand"
    /\ ret' = [ret EXCEPT !.op = "while", !.returnValue = r]
    /\ UNCHANGED <<matrix, exited, vector, members, path, searchVars>>

\* while (returnValue >= validRange);
GeneratorRepeat ==
    /\ ret.op = "while"
    /\ ret.returnValue >= ret.validRange
    /\ ret' = [ret EXCEPT !.op = "rand"]
    /\ UNCHANGED <<matrix, exited, vector, members, path, searchVars>>

\* return returnValue % upperBound;
GeneratorReturn ==
    /\ ret.op = "while"
    /\ ret.returnValue < ret.validRange
    /\ ret' = [ret EXCEPT !.op = "return",
                          !.value = UTILITY_generateRandomNumber(ret.upperBound,
                                                                 ret.returnValue)]
    /\ UNCHANGED <<matrix, exited, vector, members, path, searchVars>>

GeneratorNext ==
    \/ GeneratorEnter /\ UNCHANGED <<replay, rand_next>>
    \/ \E r \in GeneratorDraws(ret.validRange) :
          GeneratorRand(r) /\ UNCHANGED <<replay, rand_next>>
    \/ GeneratorRepeat /\ UNCHANGED <<replay, rand_next>>
    \/ GeneratorReturn /\ UNCHANGED <<replay, rand_next>>

SpecGenerator == GeneratorInit /\ [][GeneratorNext]_vars

\* The accepted values of rand() are 0..validRange-1; every output
\* 0..upperBound-1 is the image of the same number of them exactly when
\* validRange is a multiple of upperBound.
C35_Unbiased(upperBound, validRange) == validRange % upperBound = 0

\* C35: UTILITY_generateRandomNumber(upperBound) with upperBound >= 1
\* returns a value in 0..upperBound-1, and the threshold validRange, as the
\* 16-bit variable holds it, is a multiple of upperBound, so that the
\* accepted values of rand() map onto every output the same number of
\* times.
C35_RangeAndNoModuloBias ==
    (ret.op \in {"rand", "while", "return"} /\ ret.upperBound >= 1) =>
       /\ ret.op = "return" => ret.value \in 0..(ret.upperBound - 1)
       /\ C35_Unbiased(ret.upperBound, ret.validRange)

\* C35, the part that holds: the value returned for upperBound >= 1 is in
\* 0..upperBound-1, and the threshold before its conversion to 16 bits is a
\* multiple of upperBound.
C35_RangeAndWideThreshold ==
    (ret.op \in {"rand", "while", "return"} /\ ret.upperBound >= 1) =>
       /\ ret.op = "return" => ret.value \in 0..(ret.upperBound - 1)
       /\ C35_Unbiased(ret.upperBound, UTILITY_validRange_wide(ret.upperBound))
       /\ ret.validRange = Uint16(UTILITY_validRange_wide(ret.upperBound))

(***************************************************************************)
(* SpecWideGrid: grids of about 2^16 cells, cells of their first column    *)
(* set, their counts read through the getters and by the sequential        *)
(* search for its budget.                                                  *)
(***************************************************************************)
WideGridSide == 256

WideGridDims ==
    {<<WideGridSide, WideGridSide>>, <<WideGridSide - 1, WideGridSide + 1>>,
     <<WideGridSide, WideGridSide - 1>>}

WideInputs == {0, WideGridSide - 2}

WideGridInit ==
    /\ \E d \in WideGridDims : matrix = MATRIXWORLD_matrixInitialization(d[1], d[2]).matrix
    /\ exited = FALSE
    /\ VectorIdle
    /\ PathIdle
    /\ pathLength \in 1..2
    /\ isMultithreading = FALSE
    /\ usedStartingPoints = NULL
    /\ isPathFound = FALSE
    /\ final_path = NULL
    /\ used_points_mutex = {}
    /\ completion_mutex = {}
    /\ thread = <<>>
    /\ main = [pc |-> "call"]
    /\ result = NoReturn
    /\ replay = NULL
    /\ rand_next = RandUnused

\* MATRIXWORLD_getNoOfUnblockedCells(matrix_p), its value kept in ret.
GridGetNoOfUnblockedCells ==
    /\ ~exited
    /\ matrix # NULL
    /\ ret' = [op |-> "getNoOfUnblockedCells", row |-> 0, col |-> 0,
               value |-> MATRIXWORLD_getNoOfUnblockedCells(matrix)]
    /\ UNCHANGED <<matrix, exited, vector, members, path>>
    /\ UNCHANGED searchVars

\* MATRIXWORLD_getNoOfBlockedCells(matrix_p), its value kept in ret.
GridGetNoOfBlockedCells ==
    /\ ~exited
    /\ matrix # NULL
    /\ ret' = [op |-> "getNoOfBlockedCells", row |-> 0, col |-> 0,
               value |-> MATRIXWORLD_getNoOfBlockedCells(matrix)]
    /\ UNCHANGED <<matrix, exited, vector, members, path>>
    /\ UNCHANGED searchVars

WideGridNext ==
    \/ \E row \in WideInputs, state \in BOOLEAN :
          main.pc = "call" /\ GridSetCell(row, 0, state)
             /\ UNCHANGED <<replay, rand_next>>
    \/ main.pc = "call" /\ GridGetNoOfUnblockedCells /\ UNCHANGED <<replay, rand_next>>
    \/ main.pc = "call" /\ GridGetNoOfBlockedCells /\ UNCHANGED <<replay, rand_next>>
    \/ SingleThreadStart /\ UNCHANGED <<replay, rand_next>>

SpecWideGrid == WideGridInit /\ [][WideGridNext]_vars

\* C36: the count getters return the stored blocked and unblocked counts
\* exactly for every grid size the type allows; for a grid with more than
\* 65,535 unblocked cells (256 x 256) MATRIXWORLD_getNoOfUnblockedCells, and
\* with it the number of attempts the search allows itself, is the full
\* count and not the count modulo 2^16.
C36_GettersReturnStoredCounts ==
    [][/\ (ret' # ret /\ ret'.op = "getNoOfUnblockedCells") =>
             ret'.value = matrix.noOfUnblockedCells
       /\ (ret' # ret /\ ret'.op = "getNoOfBlockedCells") =>
             ret'.value = matrix.noOfBlockedCells
       /\ (main.pc = "call" /\ main'.pc = "singleThread") =>
             thread'[0].noOfUnblockedElements = matrix.noOfUnblockedCells
      ]_vars

\* C36 for the counts that a uint16_t holds: they are returned as stored.
C36_ExactUpToUint16 ==
    [][/\ (ret' # ret /\ ret'.op = "getNoOfUnblockedCells"
             /\ matrix.noOfUnblockedCells <= UINT16_MAX) =>
             ret'.value = matrix.noOfUnblockedCells
       /\ (ret' # ret /\ ret'.op = "getNoOfBlockedCells"
             /\ matrix.noOfBlockedCells <= UINT16_MAX) =>
             ret'.value = matrix.noOfBlockedCells
       /\ (main.pc = "call" /\ main'.pc = "singleThread"
             /\ matrix.noOfUnblockedCells <= UINT16_MAX) =>
             thread'[0].noOfUnblockedElements = matrix.noOfUnblockedCells
      ]_vars

\* The path of the searching thread t while it is in an attempt.
C37_PathInAttempt(t) ==
    LET held == PathCords(thread[t].foundPath)
        n == thread[t].foundPath.currentNoOfCordsInPath
    IN  /\ n \in 1..pathLength
        /\ thread[t].foundPath.pathSize = pathLength
        /\ \A i \in 1..(n - 1) : C25_Distance(held[i], held[i + 1]) = 1
        /\ \A i \in 1..n : \A j \in 1..n : i # j => held[i] # held[j]
        /\ \A i \in 1..n :
              /\ held[i] \in Cells(matrix)
              /\ ~CellState(matrix, held[i])
              /\ held[i] \in CordsOf(VectorCords(thread[t].visitedPoints))

\* C37: at every point of an attempt, of the sequential search or of a
\* worker, the path in progress is contiguous and without duplicates, every
\* coordinate on it is in bounds, unblocked and in visited, and its length
\* is between 1 and pathLength, the capacity of the Path: the search never
\* adds to a full Path and never pops or reads the last of an empty one.
\* On a square grid no step of a search that has started ends the process.
C37_AttemptPathWellFormed ==
    [][/\ \A t \in DOMAIN thread' :
             (thread'[t].pc = "backtracking") => C37_PathInAttempt(t)'
       /\ (matrix.rows = matrix.cols /\ main.pc # "call" /\ ~exited) => ~exited'
      ]_vars

\* C37 is exercised: two workers are in their attempts at once, each with a
\* path of two coordinates or more.
C37_Witness ==
    /\ isMultithreading
    /\ ~exited
    /\ \E v \in Threads, w \in Threads :
          /\ v # w
          /\ thread[v].pc = "backtracking"
          /\ thread[w].pc = "backtracking"
          /\ thread[v].foundPath.currentNoOfCordsInPath >= 2
          /\ thread[w].foundPath.currentNoOfCordsInPath >= 2

(***************************************************************************)
(* SpecPublication: DFS_findPath with isMultithreading, with the section   *)
(* under completion_mutex_p taken statement by statement: the test of the  *)
(* flag, the write of the flag, the memcpy into the result slot.  Between  *)
(* them the other workers run and read the flag without the lock.          *)
(***************************************************************************)
\* if (*path_is_found_p == false); when it fails: pthread_mutex_unlock,
\* STPOINT_destroyVector(&visitedPoints_p), and the loop goes on.
ThreadTestFlag(w) ==
    /\ ~exited
    /\ thread[w].pc = "publish"
    /\ IF DFS_internal_mayPublish(isPathFound)
       THEN /\ thread' = [thread EXCEPT ![w].pc = "setFlag"]
            /\ UNCHANGED completion_mutex
       ELSE /\ thread' = [thread EXCEPT ![w] =
                            DFS_internal_nextIteration([@ EXCEPT !.visitedPoints = NULL])]
            /\ completion_mutex' = completion_mutex \ {w}
    /\ UNCHANGED <<matrix, exited, vector, members, path, ret, pathLength, isMultithreading,
                   usedStartingPoints, isPathFound, final_path, used_points_mutex, main,
                   result>>

\* *path_is_found_p = true;
ThreadSetFlag(w) ==
    /\ ~exited
    /\ thread[w].pc = "setFlag"
    /\ isPathFound' = TRUE
    /\ thread' = [thread EXCEPT ![w].pc = "copyPath"]
    /\ UNCHANGED <<matrix, exited, vector, members, path, ret, pathLength, isMultithreading,
                   usedStartingPoints, final_path, used_points_mutex, completion_mutex,
                   main, result>>

\* memcpy(final_path_p, foundPath_p, PATH_getByteSize(foundPath_p));
\* pthread_mutex_unlock, STPOINT_destroyVector(&visitedPoints_p), and the
\* loop goes on.
ThreadCopyPath(w) ==
    /\ ~exited
    /\ thread[w].pc = "copyPath"
    /\ final_path' = PATH_internal_copy(final_path, thread[w].foundPath)
    /\ completion_mutex' = completion_mutex \ {w}
    /\ thread' = [thread EXCEPT ![w] =
                    DFS_internal_nextIteration([@ EXCEPT !.visitedPoints = NULL])]
    /\ UNCHANGED <<matrix, exited, vector, members, path, ret, pathLength, isMultithreading,
                   usedStartingPoints, isPathFound, used_points_mutex, main, result>>

PublicationNext ==
    \/ MainStart /\ UNCHANGED <<replay, rand_next>>
    \/ MainCreate /\ UNCHANGED <<replay, rand_next>>
    \/ MainJoin /\ UNCHANGED <<replay, rand_next>>
    \/ \E w \in Threads :
          \/ ThreadStart(w) /\ UNCHANGED <<replay, rand_next>>
          \/ \E randRow \in 0..MaxThreadedRand, randCol \in 0..MaxThreadedRand :
                ThreadDraw(w, randRow, randCol) /\ UNCHANGED <<replay, rand_next>>
          \/ ThreadLockUsedPoints(w) /\ UNCHANGED <<replay, rand_next>>
          \/ ThreadUsedPoints(w) /\ UNCHANGED <<replay, rand_next>>
          \/ ThreadTryStartingPoint(w) /\ UNCHANGED <<replay, rand_next>>
          \/ ThreadBacktracking(w) /\ UNCHANGED <<replay, rand_next>>
          \/ ThreadReadFlag(w) /\ UNCHANGED <<replay, rand_next>>
          \/ ThreadLockCompletion(w) /\ UNCHANGED <<replay, rand_next>>
          \/ ThreadTestFlag(w) /\ UNCHANGED <<replay, rand_next>>
          \/ ThreadSetFlag(w) /\ UNCHANGED <<replay, rand_next>>
          \/ ThreadCopyPath(w) /\ UNCHANGED <<replay, rand_next>>
          \/ ThreadExhausted(w) /\ UNCHANGED <<replay, rand_next>>

SpecPublication == ThreadedInit /\ [][PublicationNext]_vars

\* The result slot holds a complete path: pathLength coordinates, each an
\* unblocked cell of the grid, consecutive ones at distance 1, none twice.
C38_SlotComplete ==
    /\ final_path # NULL
    /\ final_path.currentNoOfCordsInPath = pathLength
    /\ LET held == PathCords(final_path) IN
         /\ \A i \in 1..(pathLength - 1) : C25_Distance(held[i], held[i + 1]) = 1
         /\ \A i \in 1..pathLength : \A j \in 1..pathLength : i # j => held[i] # held[j]
         /\ \A i \in 1..pathLength :
               held[i] \in Cells(matrix) /\ ~CellState(matrix, held[i])

C39_VisitedDestroyed(w) ==
    /\ thread[w].pc \notin {"notCreated", "start", "finished"}
    /\ thread[w].visitedPoints = NULL

\* C39: with isMultithreading a worker never calls
\* DFS_internal_backtracking, nor adds a coordinate to its path, after it
\* has destroyed its own visited set.  The set is destroyed only at the end
\* of the publication branch, where the flag is set; from then on the
\* worker's path never grows and every iteration of its loop either skips
\* the drawn point or leaves the loop at the test of the flag.
C39_NoAttemptWithoutVisited ==
    [][\A w \in Threads :
          /\ (thread[w].visitedPoints # NULL /\ C39_VisitedDestroyed(w)') =>
                /\ thread[w].pc \in {"publish", "copyPath"}
                /\ isPathFound
          /\ C39_VisitedDestroyed(w) =>
                /\ isPathFound
                /\ thread[w].pc # "backtracking"
                /\ thread'[w].pc # "backtracking"
                /\ thread'[w].visitedPoints = NULL
                /\ thread'[w].foundPath # NULL =>
                      thread'[w].foundPath.currentNoOfCordsInPath
                         <= thread[w].foundPath.currentNoOfCordsInPath
                /\ (thread[w].pc = "tryStartingPoint" /\ thread'[w] # thread[w]) =>
                      thread'[w].pc \in {"loop", "finished"}
      ]_vars

\* C39 is exercised: a worker without its visited set has drawn an
\* unblocked point that it put into the set of tried origins itself, and
\* stands before the test of the flag.
C39_Witness ==
    /\ isMultithreading
    /\ ~exited
    /\ \E w \in Threads :
          /\ C39_VisitedDestroyed(w)
          /\ thread[w].pc = "tryStartingPoint"
          /\ thread[w].isStartingPointValid
          /\ thread[w].startingPoint \in Cells(matrix)
          /\ ~CellState(matrix, thread[w].startingPoint)

====
